---- MODULE Spec2Model ----
(***************************************************************************)
(* The plan viewer of tfapp (internal/ui/plan): the diff tree builder of    *)
(* plan.go (parsePlan, parseTerraformPlanJSON, processAttributeDiffs,      *)
(* addResourceAttributes), the builder of parsePlan.go (parsePlanJSON,     *)
(* processAttributes, formatMapEntries) and the navigator (Model, New,     *)
(* Update, ensureCursorVisible, getSearchResults, findNext).               *)
(*                                                                         *)
(* Go values are modelled as follows.  A *TreeNode is an index into the    *)
(* sequence heap (0 is nil); a []*TreeNode is a sequence of such indices.  *)
(* A decoded JSON value (interface{}) is a record [t, v]: t is the dynamic *)
(* type ("null", "str", "num", "bool", "map", "list"), v the payload.  A   *)
(* Go string is a TLA+ string.                                             *)
(***************************************************************************)
EXTENDS Integers, Sequences, FiniteSets, TLC

VARIABLES
    planOutput,        \* the text handed to New / parsePlan
    mapOrder,          \* the order in which this run iterates Go maps
    pc,                \* "input" before New has run, "running" after, "crashed" on a panic
    heap,              \* the allocated TreeNodes
    nodes,             \* Model.nodes
    allNodes,          \* Model.allNodes
    cursor,            \* Model.cursor
    windowTop,         \* Model.windowTop
    windowHeight,      \* Model.windowHeight
    horizontalOffset,  \* Model.horizontalOffset
    width,             \* Model.width
    quitting,          \* Model.quitting
    ready,             \* Model.ready
    showHelp,          \* Model.showHelp
    inputSearchModel,  \* Model.inputSearchModel
    searchMode,        \* Model.searchMode
    searchString,      \* Model.searchString
    searchResults,     \* Model.searchResults
    searchIndex,       \* Model.searchIndex
    operands,          \* the values handed to isEffectivelyEqual
    verdicts,          \* what isEffectivelyEqual returned for each pair of them
    redirectOutput,    \* RunCommand's redirectOutput
    script,            \* what the terraform process writes and how it exits
    runPc,             \* RunCommand's position
    process,           \* the terraform process: its state and what it has left to write
    cmdPipe,           \* stdoutPipe and stderrPipe: the bytes in them, and their read ends
    progressPipe,      \* the io.Pipe pairs stdoutReader/stdoutWriter, stderrReader/stderrWriter
    copier,            \* the two io.Copy goroutines
    progressReader,    \* the two processOutputForProgress goroutines
    captured,          \* the buffers stdout and stderr
    spinnerProgram,    \* the spinner s: its program and the calls made on it
    ticks,             \* the status goroutine's counter
    cmdResult          \* the error RunCommand returned

vars == <<planOutput, mapOrder, pc, heap, nodes, allNodes, cursor, windowTop,
          windowHeight, horizontalOffset, width, quitting, ready, showHelp,
          inputSearchModel, searchMode, searchString, searchResults,
          searchIndex, operands, verdicts, redirectOutput, script, runPc, process,
          cmdPipe, progressPipe, copier, progressReader, captured, spinnerProgram,
          ticks, cmdResult>>

-----------------------------------------------------------------------------
(* Go's strings package, on TLA+ strings.                                   *)

Min(a, b) == IF a < b THEN a ELSE b
Max(a, b) == IF a > b THEN a ELSE b

CharAt(s, i) == SubSeq(s, i, i)

\* strings.Contains
Contains(s, substr) ==
    \E i \in 0..(Len(s) - Len(substr)) : SubSeq(s, i + 1, i + Len(substr)) = substr

\* strings.HasPrefix
HasPrefix(s, prefix) ==
    Len(s) >= Len(prefix) /\ SubSeq(s, 1, Len(prefix)) = prefix

IsSpace(c) == c \in {" ", "\n", "\t", "\r"}

\* strings.TrimLeft(s, cutset)
RECURSIVE TrimLeft(_, _)
TrimLeft(s, cutset) ==
    IF Len(s) > 0 /\ Contains(cutset, CharAt(s, 1))
    THEN TrimLeft(SubSeq(s, 2, Len(s)), cutset) ELSE s

RECURSIVE TrimLeftSpace(_)
TrimLeftSpace(s) ==
    IF Len(s) > 0 /\ IsSpace(CharAt(s, 1)) THEN TrimLeftSpace(SubSeq(s, 2, Len(s))) ELSE s

RECURSIVE TrimRightSpace(_)
TrimRightSpace(s) ==
    IF Len(s) > 0 /\ IsSpace(CharAt(s, Len(s))) THEN TrimRightSpace(SubSeq(s, 1, Len(s) - 1)) ELSE s

\* strings.TrimSpace
TrimSpace(s) == TrimRightSpace(TrimLeftSpace(s))

\* strings.IndexByte, 0-based, -1 when absent
IndexByte(s, c) ==
    IF \E i \in 1..Len(s) : CharAt(s, i) = c
    THEN (CHOOSE i \in 1..Len(s) : CharAt(s, i) = c /\ \A j \in 1..(i - 1) : CharAt(s, j) # c) - 1
    ELSE -1

\* strings.Index, 0-based, -1 when absent
Index(s, substr) ==
    IF Contains(s, substr)
    THEN CHOOSE i \in 0..(Len(s) - Len(substr)) :
           /\ SubSeq(s, i + 1, i + Len(substr)) = substr
           /\ \A j \in 0..(i - 1) : SubSeq(s, j + 1, j + Len(substr)) # substr
    ELSE -1

\* strings.Split(s, sep) for a non-empty separator
RECURSIVE Split(_, _)
Split(s, sep) ==
    LET i == Index(s, sep)
    IN  IF i < 0 THEN <<s>>
        ELSE <<SubSeq(s, 1, i)>> \o Split(SubSeq(s, i + Len(sep) + 1, Len(s)), sep)

\* strings.Join
RECURSIVE Join(_, _)
Join(elems, sep) ==
    IF Len(elems) = 0 THEN ""
    ELSE IF Len(elems) = 1 THEN elems[1]
    ELSE elems[1] \o sep \o Join(Tail(elems), sep)

\* The bytes the model's strings use, in byte order (the order sort.Strings compares by).
ByteOrder == "\n !\"#()+-./0123456789=>ABCDEFGHIJKLMNOPQRSTUVWXYZ[]_abcdefghijklmnopqrstuvwxyz{}~"

ByteRank(c) == IndexByte(ByteOrder, c)

\* a < b for Go strings
RECURSIVE StrLess(_, _)
StrLess(a, b) ==
    IF Len(b) = 0 THEN FALSE
    ELSE IF Len(a) = 0 THEN TRUE
    ELSE IF CharAt(a, 1) = CharAt(b, 1) THEN StrLess(SubSeq(a, 2, Len(a)), SubSeq(b, 2, Len(b)))
    ELSE ByteRank(CharAt(a, 1)) < ByteRank(CharAt(b, 1))

RECURSIVE InsertSorted(_, _)
InsertSorted(sorted, x) ==
    IF sorted = <<>> THEN <<x>>
    ELSE IF StrLess(x, Head(sorted)) THEN <<x>> \o sorted
    ELSE <<Head(sorted)>> \o InsertSorted(Tail(sorted), x)

\* sort.Strings
RECURSIVE SortStrings(_)
SortStrings(keys) ==
    IF keys = <<>> THEN <<>>
    ELSE InsertSorted(SortStrings(SubSeq(keys, 1, Len(keys) - 1)), keys[Len(keys)])

\* fmt's %d
Itoa(n) == ToString(n)

-----------------------------------------------------------------------------
(* Decoded JSON values (interface{}).                                       *)

Null      == [t |-> "null", v |-> ""]
Str(s)    == [t |-> "str", v |-> s]
Num(n)    == [t |-> "num", v |-> n]
Bool(b)   == [t |-> "bool", v |-> b]
Obj(f)    == [t |-> "map", v |-> f]
List(l)   == [t |-> "list", v |-> l]
EmptyMap  == [x \in {} |-> Null]

IsNil(x)  == x.t = "null"
IsStr(x)  == x.t = "str"
IsMap(x)  == x.t = "map"
IsList(x) == x.t = "list"

\* m[key] on a Go map: nil when the key is absent
Get(m, key) == IF key \in DOMAIN m THEN m[key] ELSE Null

\* x, _ := v.(string)
AsString(x) == IF IsStr(x) THEN x.v ELSE ""

\* reflect.DeepEqual on decoded JSON values
RECURSIVE DeepEqual(_, _)
DeepEqual(a, b) ==
    /\ a.t = b.t
    /\ CASE a.t = "map" ->
              /\ DOMAIN a.v = DOMAIN b.v
              /\ \A k \in DOMAIN a.v : DeepEqual(a.v[k], b.v[k])
         [] a.t = "list" ->
              /\ Len(a.v) = Len(b.v)
              /\ \A i \in 1..Len(a.v) : DeepEqual(a.v[i], b.v[i])
         [] OTHER -> a.v = b.v

\* The keys of a Go map in the order this run's range statement yields them.
\* Go leaves the order unspecified; ord picks one: ascending, descending, or
\* either of them rotated by one.
RECURSIVE SetToSeq(_)
SetToSeq(S) ==
    IF S = {} THEN <<>>
    ELSE LET m == CHOOSE x \in S : \A y \in S \ {x} : StrLess(x, y)
         IN  <<m>> \o SetToSeq(S \ {m})

Reverse(s) == [i \in 1..Len(s) |-> s[Len(s) + 1 - i]]

Rotate(s) == IF Len(s) < 2 THEN s ELSE Tail(s) \o <<Head(s)>>

MapOrders == {"asc", "desc", "asc-rot", "desc-rot"}

RangeKeys(m, ord) ==
    LET Ordered(asc) == CASE ord = "asc"     -> asc
                          [] ord = "desc"    -> Reverse(asc)
                          [] ord = "asc-rot" -> Rotate(asc)
                          [] OTHER           -> Rotate(Reverse(asc))
    IN  Ordered(SetToSeq(DOMAIN m))

\* fmt's %v of a decoded JSON value (fmt prints a map's keys sorted)
RECURSIVE FormatV(_)
FormatV(x) ==
    CASE x.t = "null" -> "<nil>"
      [] x.t = "str"  -> x.v
      [] x.t = "num"  -> Itoa(x.v)
      [] x.t = "bool" -> IF x.v THEN "true" ELSE "false"
      [] x.t = "map"  ->
           LET Entries(ks) == [i \in 1..Len(ks) |-> ks[i] \o ":" \o FormatV(x.v[ks[i]])]
           IN  "map[" \o Join(Entries(SetToSeq(DOMAIN x.v)), " ") \o "]"
      [] OTHER        ->
           "[" \o Join([i \in 1..Len(x.v) |-> FormatV(x.v[i])], " ") \o "]"

-----------------------------------------------------------------------------
(* TreeNode and the heap.                                                   *)

\* the zero TreeNode (plan.go, type TreeNode)
TreeNode ==
    [Text |-> "", Children |-> <<>>, Parent |-> 0, Depth |-> 0, Expanded |-> FALSE,
     Type |-> "", IsRoot |-> FALSE, Toggleable |-> FALSE, ChangeType |-> "",
     PreviousAddress |-> "", IsDrifted |-> FALSE, ActionReason |-> ""]

\* &TreeNode{...}: the new node's pointer is Len(h) + 1
Alloc(h, node) == Append(h, node)

\* parent.Children = append(parent.Children, child)
AppendChild(h, parent, child) == [h EXCEPT ![parent].Children = Append(@, child)]

\* allocate node and append it to its parent's children
AddNode(h, parent, node) == AppendChild(Alloc(h, node), parent, Len(h) + 1)

\* createClosingBrace
createClosingBrace(depth, parent) ==
    [TreeNode EXCEPT !.Text = "}", !.Expanded = TRUE, !.Type = "closing_brace",
                     !.Depth = depth, !.Parent = parent, !.Toggleable = FALSE,
                     !.ChangeType = "no-op"]

\* a closing brace written one level deeper than the block it closes: the brace
\* of a builder that C10 does not hold for
DeeperBraceNode(depth, parent) ==
    [TreeNode EXCEPT !.Text = "}", !.Expanded = FALSE, !.Type = "closing_brace",
                     !.Depth = depth + 1, !.Parent = parent, !.Toggleable = FALSE]

\* the closing brace literal that plan.go's builder writes inline
ClosingBraceNode(depth, parent) ==
    [TreeNode EXCEPT !.Text = "}", !.Expanded = FALSE, !.Type = "closing_brace",
                     !.Depth = depth, !.Parent = parent, !.Toggleable = FALSE]

\* isEffectivelyEqual
isEffectivelyEqual(a, b) ==
    \/ IsNil(a) /\ IsNil(b)
    \/ DeepEqual(a, b)
    \/ IsStr(a) /\ IsNil(b) /\ a.v = ""
    \/ IsStr(b) /\ IsNil(a) /\ b.v = ""
    \/ IsStr(a) /\ IsStr(b) /\ a.v = "" /\ b.v = ""
    \/ IsMap(a) /\ IsMap(b) /\ DOMAIN a.v = {} /\ DOMAIN b.v = {}
    \/ IsMap(a) /\ IsNil(b) /\ DOMAIN a.v = {}
    \/ IsMap(b) /\ IsNil(a) /\ DOMAIN b.v = {}
    \/ IsList(a) /\ IsList(b) /\ Len(a.v) = 0 /\ Len(b.v) = 0
    \/ IsList(a) /\ IsNil(b) /\ Len(a.v) = 0
    \/ IsList(b) /\ IsNil(a) /\ Len(b.v) = 0

\* formatAttributeValue
formatAttributeValue(value) ==
    CASE value.t = "null" -> "null"
      [] value.t = "str"  -> "\"" \o value.v \o "\""
      [] value.t = "map"  -> "{...}"
      [] value.t = "list" -> "[...]"
      [] OTHER            -> FormatV(value)

\* sliceContains
sliceContains(slice, str) == \E i \in 1..Len(slice) : slice[i] = str

\* the tags joined whatever they are: the change type of a builder that C11's
\* classification does not hold for
joinedActions(actions) == Join(actions, "/")

\* mapActionsToChangeType
mapActionsToChangeType(actions) ==
    IF sliceContains(actions, "create") /\ sliceContains(actions, "delete") THEN "replace"
    ELSE IF sliceContains(actions, "create") THEN "create"
    ELSE IF sliceContains(actions, "delete") THEN "destroy"
    ELSE IF sliceContains(actions, "update") THEN "update"
    ELSE IF Len(actions) = 0 THEN "no-op"
    ELSE Join(actions, "/")

\* getActionReasonDisplay
getActionReasonDisplay(reason) ==
    CASE reason = "replace_because_tainted"          -> "tainted, so must be replaced"
      [] reason = "replace_because_cannot_update"    -> "cannot be updated in-place"
      [] reason = "replace_by_request"               -> "replacement requested"
      [] reason = "delete_because_no_resource_config" -> "no resource configuration found"
      [] reason = "delete_because_no_module"         -> "containing module is gone"
      [] reason = "delete_because_wrong_repetition"  -> "wrong repetition mode"
      [] reason = "delete_because_count_index"       -> "count index out of range"
      [] reason = "delete_because_each_key"          -> "for_each key not found"
      [] reason = "read_because_config_unknown"      -> "configuration contains unknown values"
      [] reason = "read_because_dependency_pending"  -> "has pending dependent resources"
      [] OTHER                                       -> reason

\* getGrammaticalAction
getGrammaticalAction(action) ==
    CASE action = "create"  -> "created"
      [] action = "update"  -> "updated"
      [] action = "replace" -> "replaced"
      [] action = "destroy" -> "destroyed"
      [] action = "move"    -> "moved"
      [] OTHER              -> action \o "d"

\* getResourceNameFromAddress
getResourceNameFromAddress(address, mode, resourceType) ==
    LET parts == Split(address, ".")
        lastPart == parts[Len(parts)]
        indexBracket == IndexByte(lastPart, "[")
    IN  IF indexBracket > 0 THEN SubSeq(lastPart, 1, indexBracket) ELSE lastPart

\* formatResourceDeclaration
formatResourceDeclaration(address, resourceType, changeType) ==
    CASE changeType = "create"  -> "+ resource \"" \o resourceType \o "\" {"
      [] changeType = "destroy" -> "- resource \"" \o resourceType \o "\" {"
      [] changeType = "update"  -> "~ resource \"" \o resourceType \o "\" {"
      [] changeType = "replace" -> "-/+ resource \"" \o resourceType \o "\" {"
      [] OTHER                  -> "  resource \"" \o resourceType \o "\" {"

\* isRootResource
isRootResource(node) == node.Type = "resource"

-----------------------------------------------------------------------------
(* addResourceAttributes: the attributes of one side, all with one prefix.  *)

RECURSIVE addResourceAttributes(_, _, _, _, _, _)
RECURSIVE addAttributeKeys(_, _, _, _, _, _, _, _)
RECURSIVE addArrayItems(_, _, _, _, _, _, _, _)

\* the body of "for i, item := range arrValue"
addArrayItems(h, parent, key, arrValue, i, prefix, depth, ord) ==
    IF i > Len(arrValue) THEN h
    ELSE
      LET item == arrValue[i]
          blockNode == Len(h) + 1
      IN  addArrayItems(
            IF IsMap(item)
            THEN AddNode(
                   addResourceAttributes(
                     AddNode(h, parent,
                       [TreeNode EXCEPT !.Text = prefix \o " " \o key \o " {",
                                        !.Expanded = TRUE, !.Type = "block",
                                        !.Depth = depth, !.Parent = parent,
                                        !.Toggleable = TRUE]),
                     blockNode, item, prefix, depth + 1, ord),
                   parent, ClosingBraceNode(depth, parent))
            ELSE AddNode(h, parent,
                   [TreeNode EXCEPT !.Text = prefix \o " " \o key \o "[" \o Itoa(i - 1)
                                             \o "] = " \o FormatV(item),
                                    !.Type = "attribute", !.Depth = depth,
                                    !.Parent = parent]),
            parent, key, arrValue, i + 1, prefix, depth, ord)

\* the body of "for _, key := range keys"
addAttributeKeys(h, parent, attrMap, keys, n, prefix, depth, ord) ==
    IF n > Len(keys) THEN h
    ELSE
      LET key == keys[n]
          value == attrMap[key]
          blockNode == Len(h) + 1
      IN  addAttributeKeys(
            CASE IsNil(value) ->
                   AddNode(h, parent,
                     [TreeNode EXCEPT !.Text = prefix \o " " \o key \o " = null",
                                      !.Type = "attribute", !.Depth = depth,
                                      !.Parent = parent])
              [] IsMap(value) ->
                   AddNode(
                     addResourceAttributes(
                       AddNode(h, parent,
                         [TreeNode EXCEPT !.Text = prefix \o " " \o key \o " {",
                                          !.Expanded = TRUE, !.Type = "block",
                                          !.Depth = depth, !.Parent = parent,
                                          !.Toggleable = TRUE]),
                       blockNode, value, prefix, depth + 1, ord),
                     parent, ClosingBraceNode(depth, parent))
              [] IsList(value) ->
                   addArrayItems(h, parent, key, value.v, 1, prefix, depth, ord)
              [] OTHER ->
                   AddNode(h, parent,
                     [TreeNode EXCEPT !.Text = prefix \o " " \o key \o " = "
                                               \o (IF IsStr(value)
                                                   THEN "\"" \o value.v \o "\""
                                                   ELSE FormatV(value)),
                                      !.Type = "attribute", !.Depth = depth,
                                      !.Parent = parent]),
            parent, attrMap, keys, n + 1, prefix, depth, ord)

\* addResourceAttributes
addResourceAttributes(h, parent, attributes, prefix, depth, ord) ==
    IF ~IsMap(attributes) THEN h
    ELSE addAttributeKeys(h, parent, attributes.v,
                          SortStrings(RangeKeys(attributes.v, ord)), 1, prefix, depth, ord)

-----------------------------------------------------------------------------
(* processAttributeDiffs: before against after.                             *)

RECURSIVE processAttributeDiffs(_, _, _, _, _, _)
RECURSIVE diffKeys(_, _, _, _, _, _, _, _)
RECURSIVE diffArrayItems(_, _, _, _, _, _, _)

\* the body of "for i := 0; i < maxLen; i++"; i is 1-based here
diffArrayItems(h, blockNode, beforeSlice, afterSlice, i, depth, ord) ==
    IF i > Max(Len(beforeSlice), Len(afterSlice)) THEN h
    ELSE
      LET beforeItem == IF i <= Len(beforeSlice) THEN beforeSlice[i] ELSE Null
          afterItem  == IF i <= Len(afterSlice) THEN afterSlice[i] ELSE Null
          itemNode == Len(h) + 1
      IN  diffArrayItems(
            IF DeepEqual(beforeItem, afterItem) THEN h
            ELSE IF IsMap(beforeItem)
            THEN IF IsMap(afterItem)
                 THEN AddNode(
                        processAttributeDiffs(
                          AddNode(h, blockNode,
                            [TreeNode EXCEPT !.Text = "~ [" \o Itoa(i - 1) \o "] {",
                                             !.Expanded = TRUE, !.Type = "block",
                                             !.Depth = depth + 1, !.Parent = blockNode,
                                             !.Toggleable = TRUE, !.ChangeType = "update"]),
                          itemNode, beforeItem, afterItem, depth + 2, ord),
                        blockNode, ClosingBraceNode(depth + 1, blockNode))
                 ELSE h
            ELSE AddNode(h, blockNode,
                   [TreeNode EXCEPT !.Text = "~ [" \o Itoa(i - 1) \o "] = "
                                             \o formatAttributeValue(beforeItem) \o " -> "
                                             \o formatAttributeValue(afterItem),
                                    !.Type = "attribute", !.Depth = depth + 1,
                                    !.Parent = blockNode, !.ChangeType = "update"]),
            blockNode, beforeSlice, afterSlice, i + 1, depth, ord)

\* an update block that keeps no pointer to the node it is appended to
OrphanBlockNode(key, depth, parent) ==
    [TreeNode EXCEPT !.Text = "~ " \o key \o " {", !.Expanded = TRUE, !.Type = "block",
                     !.Depth = depth, !.Parent = 0, !.Toggleable = TRUE,
                     !.ChangeType = "update"]

\* a "~ <key> {" block node (nested block and array cases)
UpdateBlockNode(key, depth, parent) ==
    [TreeNode EXCEPT !.Text = "~ " \o key \o " {", !.Expanded = TRUE, !.Type = "block",
                     !.Depth = depth, !.Parent = parent, !.Toggleable = TRUE,
                     !.ChangeType = "update"]

\* the "Handle changed attributes" branch for one key
diffChangedKey(h, parent, key, beforeVal, afterVal, depth, ord) ==
    IF IsMap(beforeVal) /\ IsMap(afterVal)
    THEN AddNode(
           processAttributeDiffs(AddNode(h, parent, UpdateBlockNode(key, depth, parent)),
                                 Len(h) + 1, beforeVal, afterVal, depth + 1, ord),
           parent, ClosingBraceNode(depth, parent))
    ELSE IF IsList(beforeVal)
    THEN IF IsList(afterVal)
         THEN AddNode(
                diffArrayItems(AddNode(h, parent, UpdateBlockNode(key, depth, parent)),
                               Len(h) + 1, beforeVal.v, afterVal.v, 1, depth, ord),
                parent, ClosingBraceNode(depth, parent))
         ELSE h
    ELSE LET Scalar(beforeStr, afterStr) ==
                 AddNode(h, parent,
                   [TreeNode EXCEPT !.Text = IF \/ IsStr(afterVal) /\ afterVal.v = "(known after apply)"
                                                \/ afterStr = "(known after apply)"
                                             THEN "~ " \o key \o " = " \o beforeStr
                                                    \o " -> (known after apply)"
                                             ELSE "~ " \o key \o " = " \o beforeStr
                                                    \o " -> " \o afterStr,
                                    !.Type = "attribute", !.Depth = depth, !.Parent = parent,
                                    !.ChangeType = "update"])
         IN  Scalar(formatAttributeValue(beforeVal), formatAttributeValue(afterVal))

\* the "Unchanged attribute" branch for one key
diffUnchangedKey(h, parent, key, beforeVal, depth) ==
    IF IsMap(beforeVal)
    THEN LET node == Len(h) + 1
             hb == AddNode(h, parent,
                     [TreeNode EXCEPT !.Text = "  " \o key \o " {", !.Type = "block",
                                      !.Depth = depth, !.Parent = parent,
                                      !.Toggleable = TRUE])
             hc == AddNode(hb, node,
                     [TreeNode EXCEPT !.Text = "# (unchanged block hidden)",
                                      !.Type = "comment", !.Depth = depth + 1,
                                      !.Parent = node])
         IN  AddNode(hc, parent, ClosingBraceNode(depth, parent))
    ELSE h

\* the comparison that decides whether a key present on both sides changed
valuesDiffer(beforeVal, afterVal) == ~DeepEqual(beforeVal, afterVal)

\* the body of "for _, key := range keys"
diffKeys(h, parent, beforeMap, afterMap, keys, n, depth, ord) ==
    IF n > Len(keys) THEN h
    ELSE
      LET key == keys[n]
          beforeExists == key \in DOMAIN beforeMap
          afterExists  == key \in DOMAIN afterMap
          beforeVal == Get(beforeMap, key)
          afterVal  == Get(afterMap, key)
      IN  diffKeys(
            IF ~beforeExists /\ afterExists
            THEN addResourceAttributes(h, parent, Obj([k \in {key} |-> afterVal]), "+", depth, ord)
            ELSE IF beforeExists /\ ~afterExists
            THEN addResourceAttributes(h, parent, Obj([k \in {key} |-> beforeVal]), "-", depth, ord)
            ELSE IF valuesDiffer(beforeVal, afterVal)
            THEN diffChangedKey(h, parent, key, beforeVal, afterVal, depth, ord)
            ELSE diffUnchangedKey(h, parent, key, beforeVal, depth),
            parent, beforeMap, afterMap, keys, n + 1, depth, ord)

\* the number of keys present on both sides with deep-equal values
unusedCount(beforeMap, afterMap) ==
    Cardinality({k \in DOMAIN beforeMap \cap DOMAIN afterMap :
                    DeepEqual(beforeMap[k], afterMap[k])})

\* "if unusedCount > 3": the tally above which the hidden-attributes comment is written
HiddenCommentThreshold == 3

\* processAttributeDiffs
processAttributeDiffs(h, parent, before, after, depth, ord) ==
    IF IsNil(before) /\ IsNil(after) THEN h
    ELSE IF ~IsMap(before) \/ ~IsMap(after)
    THEN IF ~DeepEqual(before, after)
         THEN AddNode(h, parent,
                [TreeNode EXCEPT !.Text = "~ value = " \o formatAttributeValue(before)
                                          \o " -> " \o formatAttributeValue(after),
                                 !.Type = "attribute", !.Depth = depth, !.Parent = parent,
                                 !.ChangeType = "update"])
         ELSE h
    ELSE
      LET allKeys == [k \in DOMAIN before.v \cup DOMAIN after.v |-> TRUE]
          keys == SortStrings(RangeKeys(allKeys, ord))
          \* "Add a comment for unused attributes", on the heap h1 the key loop leaves
          HiddenComment(h1, n) ==
              IF n > HiddenCommentThreshold
              THEN AddNode(h1, parent,
                     [TreeNode EXCEPT !.Text = "# (" \o Itoa(n) \o " unchanged attributes hidden)",
                                      !.Type = "comment", !.Depth = depth, !.Parent = parent])
              ELSE h1
      IN  HiddenComment(diffKeys(h, parent, before.v, after.v, keys, 1, depth, ord),
                        unusedCount(before.v, after.v))

\* the before side added with "+", whatever the change type
addBeforeSide(h, parent, change, changeType, ord) ==
    addResourceAttributes(h, parent, Get(change, "before"), "+", h[parent].Depth + 1, ord)

\* addResourceDiffNodes; the variadic changeType is <<>> when the caller passes none
addResourceDiffNodes(h, parent, change, changeType, ord) ==
    LET hasBefore == "before" \in DOMAIN change
        hasAfter  == "after" \in DOMAIN change
        before == Get(change, "before")
        after  == Get(change, "after")
        hasChangeType == changeType # <<>>
        effectiveChangeType ==
            IF hasChangeType THEN changeType[1]
            ELSE IF h[parent].ChangeType # "" THEN h[parent].ChangeType
            ELSE IF hasBefore /\ hasAfter THEN "update"
            ELSE IF hasAfter THEN "create"
            ELSE IF hasBefore THEN "destroy"
            ELSE ""
    IN  IF effectiveChangeType = "create" /\ hasAfter
        THEN addResourceAttributes(h, parent, after, "+", h[parent].Depth + 1, ord)
        ELSE IF effectiveChangeType = "destroy" /\ hasBefore
        THEN addResourceAttributes(h, parent, before, "-", h[parent].Depth + 1, ord)
        ELSE IF effectiveChangeType \in {"update", "replace"} /\ hasBefore /\ hasAfter
        THEN processAttributeDiffs(h, parent, before, after, h[parent].Depth + 1, ord)
        ELSE h

-----------------------------------------------------------------------------
(* The input text and encoding/json.                                        *)
(*                                                                          *)
(* An input is [text, doc].  For a plan document, doc is the decoded value  *)
(* and text its JSON encoding.  For any other text, doc is Null and the     *)
(* text holds no double quote, so it is JSON only if it is "{}" up to       *)
(* white space: Unmarshal decides that from the text.                       *)

\* json.Marshal, compact
RECURSIVE Marshal(_)
Marshal(x) ==
    CASE x.t = "null" -> "null"
      [] x.t = "str"  -> "\"" \o x.v \o "\""
      [] x.t = "num"  -> Itoa(x.v)
      [] x.t = "bool" -> IF x.v THEN "true" ELSE "false"
      [] x.t = "map"  ->
           LET Members(ks) == [i \in 1..Len(ks) |-> "\"" \o ks[i] \o "\":" \o Marshal(x.v[ks[i]])]
           IN  "{" \o Join(Members(SetToSeq(DOMAIN x.v)), ",") \o "}"
      [] OTHER        ->
           "[" \o Join([i \in 1..Len(x.v) |-> Marshal(x.v[i])], ",") \o "]"

PlanDocument(doc) == [text |-> Marshal(doc), doc |-> doc]
RawText(text)     == [text |-> text, doc |-> Null]

\* json.Unmarshal([]byte(planJSON), &plan) with plan a map[string]interface{}:
\* [err, plan]; err is "" on success, else the decoder's message
Unmarshal(planJSON) ==
    IF IsMap(planJSON.doc) THEN [err |-> "", plan |-> planJSON.doc.v]
    ELSE
      LET t == TrimLeftSpace(planJSON.text)
          body == IF Len(t) > 0 THEN TrimLeftSpace(SubSeq(t, 2, Len(t))) ELSE ""
          rest == IF Len(body) > 0 THEN TrimLeftSpace(SubSeq(body, 2, Len(body))) ELSE ""
      IN  IF Len(t) = 0
          THEN [err |-> "unexpected end of JSON input", plan |-> EmptyMap]
          ELSE IF CharAt(t, 1) # "{"
          THEN [err |-> "invalid character '" \o CharAt(t, 1) \o "' looking for beginning of value",
                plan |-> EmptyMap]
          ELSE IF Len(body) = 0
          THEN [err |-> "unexpected end of JSON input", plan |-> EmptyMap]
          ELSE IF CharAt(body, 1) # "}"
          THEN [err |-> "invalid character '" \o CharAt(body, 1)
                          \o "' looking for beginning of object key string",
                plan |-> EmptyMap]
          ELSE IF Len(rest) > 0
          THEN [err |-> "invalid character '" \o CharAt(rest, 1) \o "' after top-level value",
                plan |-> EmptyMap]
          ELSE [err |-> "", plan |-> EmptyMap]

-----------------------------------------------------------------------------
(* parseTerraformPlanJSON.                                                  *)

\* "Convert actions to strings": the string elements of actions, in order
RECURSIVE actionStrings(_)
actionStrings(actions) ==
    IF actions = <<>> THEN <<>>
    ELSE (IF IsStr(Head(actions)) THEN <<Head(actions).v>> ELSE <<>>)
         \o actionStrings(Tail(actions))

\* m[key] = value on a Go map
Put(m, key, value) == [k \in DOMAIN m \cup {key} |-> IF k = key THEN value ELSE m[k]]

\* the body of "for _, driftItem := range resourceDrift";
\* acc is [h, driftCount, driftedResources]
RECURSIVE driftLoop(_, _, _, _)
driftLoop(acc, resourceDrift, i, ord) ==
    IF i > Len(resourceDrift) THEN acc
    ELSE IF ~IsMap(resourceDrift[i]) THEN driftLoop(acc, resourceDrift, i + 1, ord)
    ELSE IF ~IsMap(Get(resourceDrift[i].v, "change"))
    THEN driftLoop([acc EXCEPT !.driftCount = @ + 1], resourceDrift, i + 1, ord)
    ELSE
      LET driftMap == resourceDrift[i].v
          address == AsString(Get(driftMap, "address"))
          typeStr == AsString(Get(driftMap, "type"))
          change  == Get(driftMap, "change")
          actions == IF IsList(Get(change.v, "actions"))
                     THEN Get(change.v, "actions").v ELSE <<>>
          changeType == mapActionsToChangeType(actionStrings(actions))
          resourceNode == Len(acc.h) + 1
          resourceBlockNode == resourceNode + 1
      IN  driftLoop(
            [acc EXCEPT
               !.driftCount = @ + 1,
               !.h = AddNode(
                       addResourceDiffNodes(
                         AddNode(
                           Alloc(acc.h,
                             [TreeNode EXCEPT !.Text = "# " \o address \o " has drifted ("
                                                       \o changeType \o ")",
                                              !.Type = "resource", !.Depth = 0,
                                              !.Toggleable = TRUE, !.ChangeType = changeType,
                                              !.IsDrifted = TRUE]),
                           resourceNode,
                           [TreeNode EXCEPT !.Text = formatResourceDeclaration(address, typeStr,
                                                                               changeType),
                                            !.Type = "block", !.Depth = 1,
                                            !.Parent = resourceNode, !.Toggleable = TRUE,
                                            !.ChangeType = changeType, !.IsDrifted = TRUE]),
                         resourceBlockNode, change.v, <<>>, ord),
                       resourceNode, ClosingBraceNode(1, resourceNode)),
               !.driftedResources = Put(@, address, resourceNode)],
            resourceDrift, i + 1, ord)

\* the body of "for _, change := range resourceChanges";
\* acc is [h, resources, createCount, updateCount, replaceCount, destroyCount, moveCount]
RECURSIVE changeLoop(_, _, _, _)
changeLoop(acc, resourceChanges, i, ord) ==
    IF i > Len(resourceChanges) THEN acc
    ELSE
      LET change == resourceChanges[i]
          changeMap == change.v
          address == AsString(Get(changeMap, "address"))
          hasPrevious == IsStr(Get(changeMap, "previous_address"))
          previousAddress == AsString(Get(changeMap, "previous_address"))
          actionReason == AsString(Get(changeMap, "action_reason"))
          typeStr == AsString(Get(changeMap, "type"))
          mode == AsString(Get(changeMap, "mode"))
          changeDetails == Get(changeMap, "change")
          actions == IF IsList(Get(changeDetails.v, "actions"))
                     THEN Get(changeDetails.v, "actions").v ELSE <<>>
          actionStrs == actionStrings(actions)
          wasMoved == hasPrevious /\ previousAddress # address /\ previousAddress # ""
          resourceNode == Len(acc.h) + 1
          resourceBlockNode == resourceNode + 1
          \* the rest of the body, once the change type is known
          WithChangeType(changeType) ==
              changeLoop(
                [acc EXCEPT
                   !.moveCount    = IF wasMoved THEN @ + 1 ELSE @,
                   !.createCount  = IF changeType \in {"create", "replace"} THEN @ + 1 ELSE @,
                   !.destroyCount = IF changeType \in {"destroy", "replace"} THEN @ + 1 ELSE @,
                   !.updateCount  = IF changeType = "update" THEN @ + 1 ELSE @,
                   !.replaceCount = IF changeType = "replace" THEN @ + 1 ELSE @,
                   !.h = AddNode(
                           addResourceDiffNodes(
                             AddNode(
                               Alloc(acc.h,
                                 [TreeNode EXCEPT
                                    !.Text = "# " \o address \o " will be "
                                               \o getGrammaticalAction(changeType)
                                               \o (IF wasMoved
                                                   THEN " (moved from " \o previousAddress \o ")"
                                                   ELSE IF actionReason # ""
                                                   THEN " (" \o getActionReasonDisplay(actionReason)
                                                          \o ")"
                                                   ELSE ""),
                                    !.Type = "resource", !.Depth = 0,
                                    !.Toggleable = TRUE, !.ChangeType = changeType,
                                    !.PreviousAddress = previousAddress,
                                    !.ActionReason = actionReason]),
                               resourceNode,
                               [TreeNode EXCEPT
                                  !.Text = (CASE changeType = "create"  -> "+"
                                              [] changeType = "destroy" -> "-"
                                              [] changeType = "update"  -> "~"
                                              [] changeType = "replace" -> "-/+"
                                              [] OTHER                  -> " ")
                                             \o " resource \"" \o typeStr \o "\" \""
                                             \o getResourceNameFromAddress(address, mode, typeStr)
                                             \o "\" {",
                                  !.Type = "block", !.Depth = 1, !.Parent = resourceNode,
                                  !.Toggleable = TRUE, !.ChangeType = changeType,
                                  !.PreviousAddress = previousAddress,
                                  !.ActionReason = actionReason]),
                             resourceBlockNode, changeDetails.v, <<changeType>>, ord),
                           resourceNode, ClosingBraceNode(1, resourceNode)),
                   !.resources = Put(@, address,
                                     [node |-> resourceNode, path |-> address,
                                      changeType |-> changeType, wasMoved |-> wasMoved])],
                resourceChanges, i + 1, ord)
      IN  IF \/ ~IsMap(change)
             \/ ~IsMap(changeDetails)
             \/ Len(actions) = 0
             \/ Len(actionStrs) = 1 /\ actionStrs[1] = "no-op"
          THEN changeLoop(acc, resourceChanges, i + 1, ord)
          ELSE WithChangeType(mapActionsToChangeType(actionStrs))

\* the nodes of all the paths in their order, moved or not
everyResource(resources, sortedPaths, moved) ==
    [i \in 1..Len(sortedPaths) |-> resources[sortedPaths[i]].node]

\* the nodes of the sorted paths whose wasMoved flag is moved, in order
RECURSIVE selectResources(_, _, _)
selectResources(resources, sortedPaths, moved) ==
    IF sortedPaths = <<>> THEN <<>>
    ELSE (IF resources[Head(sortedPaths)].wasMoved = moved
          THEN <<resources[Head(sortedPaths)].node>> ELSE <<>>)
         \o selectResources(resources, Tail(sortedPaths), moved)

\* the summary line
summaryText(createCount, updateCount, destroyCount, moveCount, driftCount) ==
    "Plan: " \o Itoa(createCount) \o " to add, " \o Itoa(updateCount) \o " to change, "
      \o Itoa(destroyCount) \o " to destroy"
      \o (IF moveCount > 0 THEN " (" \o Itoa(moveCount) \o " moved)" ELSE "")
      \o (IF driftCount > 0 THEN " (" \o Itoa(driftCount) \o " drifted)" ELSE "")

\* "Process resource drift if present": [h, driftCount, driftedResources]
processDrift(hasDrift, resourceDrift, ord) ==
    IF hasDrift
    THEN driftLoop([h |-> <<>>, driftCount |-> 0, driftedResources |-> EmptyMap],
                   resourceDrift.v, 1, ord)
    ELSE [h |-> <<>>, driftCount |-> 0, driftedResources |-> EmptyMap]

\* "Add drifted resources to root nodes" and the separator after them:
\* [h, nodes, driftCount]
driftRoots(hasDrift, drift, driftedPaths) ==
    [h |-> IF hasDrift
           THEN Alloc(drift.h, [TreeNode EXCEPT !.Text = "", !.Expanded = TRUE,
                                                !.Type = "separator", !.Depth = 0])
           ELSE drift.h,
     nodes |-> IF hasDrift
               THEN [i \in 1..Len(driftedPaths) |-> drift.driftedResources[driftedPaths[i]]]
                    \o <<Len(drift.h) + 1>>
               ELSE <<>>,
     driftCount |-> drift.driftCount]

\* "Sort drifted resources by path"
sortedDrift(hasDrift, drift, ord) ==
    driftRoots(hasDrift, drift, SortStrings(RangeKeys(drift.driftedResources, ord)))

\* the drift section of parseTerraformPlanJSON
driftSection(resourceDrift, ord) ==
    sortedDrift(IsList(resourceDrift) /\ Len(resourceDrift.v) > 0,
                processDrift(IsList(resourceDrift) /\ Len(resourceDrift.v) > 0,
                             resourceDrift, ord),
                ord)

\* "Add regular resources", "Add moved resources" and "Add summary node"
summaryRoots(section, res, sortedPaths) ==
    [h |-> Alloc(res.h,
             [TreeNode EXCEPT !.Text = summaryText(res.createCount, res.updateCount,
                                                   res.destroyCount, res.moveCount,
                                                   section.driftCount),
                              !.Expanded = TRUE, !.Type = "summary", !.Depth = 0]),
     nodes |-> section.nodes
                 \o selectResources(res.resources, sortedPaths, FALSE)
                 \o selectResources(res.resources, sortedPaths, TRUE)
                 \o <<Len(res.h) + 1>>]

\* "Sort resources by path"
sortedResources(section, res, ord) ==
    summaryRoots(section, res, SortStrings(RangeKeys(res.resources, ord)))

\* "Process resource changes", after the drift section
changeSection(section, resourceChanges, ord) ==
    IF ~IsList(resourceChanges)
    THEN [h |-> Alloc(section.h, [TreeNode EXCEPT
                                    !.Text = "No changes. Infrastructure is up-to-date.",
                                    !.Expanded = TRUE, !.Type = "info", !.Depth = 0]),
          nodes |-> section.nodes \o <<Len(section.h) + 1>>]
    ELSE sortedResources(section,
                         changeLoop([h |-> section.h, resources |-> EmptyMap,
                                     createCount |-> 0, updateCount |-> 0, replaceCount |-> 0,
                                     destroyCount |-> 0, moveCount |-> 0],
                                    resourceChanges.v, 1, ord),
                         ord)

\* parseTerraformPlanJSON once the text is decoded; dec is Unmarshal's [err, plan]
decodedPlan(dec, ord) ==
    IF dec.err # ""
    THEN [h |-> <<[TreeNode EXCEPT !.Text = "Error parsing plan JSON: " \o dec.err,
                                   !.Expanded = TRUE, !.Type = "error", !.Depth = 0]>>,
          nodes |-> <<1>>]
    ELSE changeSection(driftSection(Get(dec.plan, "resource_drift"), ord),
                       Get(dec.plan, "resource_changes"), ord)

\* parseTerraformPlanJSON: [h, nodes], the heap and the root nodes returned
parseTerraformPlanJSON(planJSON, ord) == decodedPlan(Unmarshal(planJSON), ord)

-----------------------------------------------------------------------------
(* parsePlan: JSON when the text begins with "{", else the plain-text plan. *)

\* the body of "for i := 0; i < len(lines); i++"; i is 1-based here;
\* st is [h, stack, currentResourceNode, blockLevel, inResourceBlock]; the root is heap[1]
RECURSIVE textLoop(_, _, _)
textLoop(st, lines, i) ==
    IF i > Len(lines) THEN st
    ELSE
      LET line == lines[i]
          indent == Len(line) - Len(TrimLeft(line, " "))
          trimmedLine == TrimSpace(line)
          isHeader == Contains(line, "#")
                        /\ (Contains(line, "will be") \/ Contains(line, "must be"))
          hasReason == /\ i + 1 <= Len(lines)
                       /\ Contains(line, " will be destroyed")
                       /\ TrimSpace(lines[i + 1]) # ""
                       /\ Contains(lines[i + 1], "# (because")
          resourceNode == Len(st.h) + 1
          inBlock == \/ st.inResourceBlock
                     \/ /\ st.currentResourceNode # 0
                        /\ \/ HasPrefix(trimmedLine, "- resource ")
                           \/ HasPrefix(trimmedLine, "+ resource ")
                           \/ HasPrefix(trimmedLine, "~ resource ")
                        /\ Contains(trimmedLine, "{")
          level == st.blockLevel + (IF Contains(line, "{") THEN 1 ELSE 0)
                                 - (IF Contains(line, "}") THEN 1 ELSE 0)
          depth == indent \div 2
          nodeType == IF Contains(line, "{") THEN "block" ELSE "attribute"
          RECURSIVE pop(_)
          pop(stack) == IF Len(stack) > 1 /\ depth <= st.h[stack[Len(stack)]].Depth
                        THEN pop(SubSeq(stack, 1, Len(stack) - 1)) ELSE stack
          stack == pop(st.stack)
          parent == stack[Len(stack)]
          node == Len(st.h) + 1
      IN  IF trimmedLine = "" THEN textLoop(st, lines, i + 1)
          ELSE IF isHeader
          THEN textLoop([h |-> AddNode(st.h, 1,
                                 [TreeNode EXCEPT
                                    !.Text = IF hasReason
                                             THEN trimmedLine \o "\n" \o TrimSpace(lines[i + 1])
                                             ELSE trimmedLine,
                                    !.Type = "resource", !.Depth = indent \div 2,
                                    !.Parent = 1, !.Toggleable = TRUE]),
                         stack |-> <<1, resourceNode>>,
                         currentResourceNode |-> resourceNode,
                         blockLevel |-> 0,
                         inResourceBlock |-> FALSE],
                        lines, IF hasReason THEN i + 2 ELSE i + 1)
          ELSE IF st.currentResourceNode = 0
          THEN textLoop(st, lines, i + 1)
          ELSE textLoop([h |-> AddNode(st.h, parent,
                                 [TreeNode EXCEPT !.Text = trimmedLine, !.Type = nodeType,
                                                  !.Depth = depth, !.Parent = parent,
                                                  !.Toggleable = TRUE]),
                         stack |-> IF nodeType = "block" THEN Append(stack, node) ELSE stack,
                         currentResourceNode |-> st.currentResourceNode,
                         blockLevel |-> level,
                         inResourceBlock |-> inBlock],
                        lines, i + 1)

\* parsePlan: [panic, h, nodes]; panic is the index-out-of-range of
\* strings.TrimSpace(planOutput)[0] on a text that is empty once trimmed
parsePlan(input, ord) ==
    LET trimmed == TrimSpace(input.text)
        root == [TreeNode EXCEPT !.Text = "Terraform Plan", !.Expanded = TRUE,
                                 !.IsRoot = TRUE, !.Toggleable = TRUE]
        \* "return parseTerraformPlanJSON(planOutput)"
        FromJSON(json) == [panic |-> FALSE, h |-> json.h, nodes |-> json.nodes]
        \* "return root.Children"
        FromText(text) == [panic |-> FALSE, h |-> text.h, nodes |-> text.h[1].Children]
    IN  IF Len(trimmed) = 0 THEN [panic |-> TRUE, h |-> <<>>, nodes |-> <<>>]
        ELSE IF CharAt(trimmed, 1) = "{"
        THEN FromJSON(parseTerraformPlanJSON(input, ord))
        ELSE FromText(textLoop([h |-> <<root>>, stack |-> <<1>>,
                                currentResourceNode |-> 0, blockLevel |-> 0,
                                inResourceBlock |-> FALSE],
                               Split(input.text, "\n"), 1))

-----------------------------------------------------------------------------
(* parsePlan.go: parsePlanJSON and processAttributes, the builder over the  *)
(* typed TerraformPlan of models.go.  after_unknown is passed as the        *)
(* decoded value: Null is the nil map.                                      *)

\* contains
contains(slice, item) == \E i \in 1..Len(slice) : slice[i] = item

\* the "empty string to null conversion" test on a child's text
isEmptyStringToNull(text) ==
    /\ Contains(text, " -> ")
    /\ Contains(text, "\"\"")
    /\ Contains(text, "null")
    /\ Len(Split(text, " -> ")) = 2
    /\ \/ /\ TrimSpace(Split(text, " -> ")[1]) = "\"\""
          /\ TrimSpace(Split(text, " -> ")[2]) = "null"
       \/ /\ TrimSpace(Split(text, " -> ")[1]) = "null"
          /\ TrimSpace(Split(text, " -> ")[2]) = "\"\""

\* "null" for nil, else fmt's %v, in quotes for a string
valueText(v) ==
    IF IsNil(v) THEN "null"
    ELSE IF IsStr(v) THEN "\"" \o v.v \o "\""
    ELSE FormatV(v)

\* the body of formatMapEntries' "for _, key := range keys"
RECURSIVE formatMapEntryLoop(_, _, _, _, _, _, _)
formatMapEntryLoop(h, parentNode, mapData, keys, n, depth, prefix) ==
    IF n > Len(keys) THEN h
    ELSE formatMapEntryLoop(
           AddNode(h, parentNode,
             [TreeNode EXCEPT
                !.Text = (CASE h[parentNode].ChangeType = "create"  -> "+ "
                            [] h[parentNode].ChangeType = "delete"  -> "- "
                            [] h[parentNode].ChangeType = "update"  -> "~ "
                            [] h[parentNode].ChangeType = "replace" -> "~ "
                            [] OTHER                                -> prefix)
                           \o keys[n] \o " = " \o valueText(mapData[keys[n]]),
                !.Expanded = TRUE, !.Type = "attribute", !.Depth = depth,
                !.Parent = parentNode, !.Toggleable = FALSE,
                !.ChangeType = IF h[parentNode].ChangeType = "replace" THEN "update"
                               ELSE h[parentNode].ChangeType]),
           parentNode, mapData, keys, n + 1, depth, prefix)

\* formatMapEntries
formatMapEntries(h, parentNode, mapData, depth, prefix, ord) ==
    formatMapEntryLoop(h, parentNode, mapData, SortStrings(RangeKeys(mapData, ord)), 1,
                       depth, prefix)

\* "Determine the change type for this attribute": [attrPrefix, changeType]
attributeChange(unknown, beforeExists, afterExists, beforeValue, afterValue) ==
    IF unknown
    THEN IF ~beforeExists
         THEN [attrPrefix |-> "+ ", changeType |-> "create"]
         ELSE [attrPrefix |-> "~ ", changeType |-> "update"]
    ELSE IF ~beforeExists /\ afterExists
    THEN [attrPrefix |-> "+ ", changeType |-> "create"]
    ELSE IF beforeExists /\ ~afterExists
    THEN [attrPrefix |-> "- ", changeType |-> "delete"]
    ELSE IF /\ beforeExists /\ afterExists /\ IsNil(afterValue)
            /\ ~isEffectivelyEqual(beforeValue, afterValue)
    THEN [attrPrefix |-> "- ", changeType |-> "delete"]
    ELSE IF beforeExists /\ afterExists /\ ~isEffectivelyEqual(beforeValue, afterValue)
    THEN [attrPrefix |-> "~ ", changeType |-> "update"]
    ELSE [attrPrefix |-> "  ", changeType |-> "no-op"]

\* "Determine change type for this list item": [attrPrefix, changeType]
itemChange(beforeItem, afterItem) ==
    IF IsNil(beforeItem) /\ ~IsNil(afterItem)
    THEN [attrPrefix |-> "+ ", changeType |-> "create"]
    ELSE IF ~IsNil(beforeItem) /\ IsNil(afterItem)
    THEN [attrPrefix |-> "- ", changeType |-> "delete"]
    ELSE IF /\ ~IsNil(beforeItem) /\ ~IsNil(afterItem)
            /\ ~isEffectivelyEqual(beforeItem, afterItem)
    THEN [attrPrefix |-> "~ ", changeType |-> "update"]
    ELSE [attrPrefix |-> "  ", changeType |-> "no-op"]

\* "Override prefix if parent node is being created or deleted"
parentOverride(parentChangeType, change) ==
    CASE parentChangeType = "create" -> [attrPrefix |-> "+ ", changeType |-> "create"]
      [] parentChangeType = "delete" -> [attrPrefix |-> "- ", changeType |-> "delete"]
      [] OTHER                       -> change

\* the default case of the switch: "This is a simple attribute";
\* acc is [h, childNodes, hiddenAttrCount, hiddenBlockCount]
simpleAttribute(acc, parentNode, key, beforeExists, beforeValue, afterValue, v, unknown, attrPrefix, changeType, depth) ==
    LET beforeText == valueText(beforeValue)
        beforeIsEmptyStr == IsStr(beforeValue) /\ beforeValue.v = ""
        afterIsEmptyStr  == IsStr(afterValue) /\ afterValue.v = ""
        \* the node is written as unchanged
        unchanged ==
            \/ /\ changeType = "update" /\ beforeExists
               /\ \/ beforeIsEmptyStr /\ IsNil(afterValue)
                  \/ IsNil(beforeValue) /\ afterIsEmptyStr
            \/ changeType = "delete" /\ beforeExists /\ beforeIsEmptyStr
        text == IF unchanged THEN beforeText
                ELSE IF changeType = "update" /\ beforeExists
                THEN IF unknown THEN beforeText \o " -> (known after apply)"
                     ELSE beforeText \o " -> " \o valueText(v)
                ELSE IF changeType = "delete" /\ beforeExists
                THEN beforeText \o " -> null"
                ELSE IF unknown THEN "(known after apply)"
                ELSE valueText(v)
    IN  [acc EXCEPT
           !.h = Alloc(@, [TreeNode EXCEPT
                             !.Text = (IF unchanged THEN "  " ELSE attrPrefix)
                                        \o key \o " = " \o text,
                             !.Expanded = TRUE, !.Type = "attribute", !.Depth = depth,
                             !.Parent = parentNode, !.Toggleable = FALSE,
                             !.ChangeType = IF unchanged THEN "no-op" ELSE changeType]),
           !.childNodes = Append(@, Len(acc.h) + 1)]

\* "Check if the block has any real changes or just hidden attributes", on the heap h2
\* that the recursive call on tempParent leaves
nestedBlock(acc, h2, parentNode, blockNode, tempParent, depth) ==
    LET children == h2[tempParent].Children
        isHiddenMessage(c) == HasPrefix(h2[c].Text, "#") /\ Contains(h2[c].Text, "unchanged")
        isChange(c) == /\ ~isHiddenMessage(c)
                       /\ \/ h2[c].ChangeType # "no-op"
                          \/ HasPrefix(h2[c].Text, "+")
                          \/ HasPrefix(h2[c].Text, "-")
                          \/ HasPrefix(h2[c].Text, "~")
        hasRealChanges == \E i \in 1..Len(children) :
                             isChange(children[i]) /\ ~isEmptyStringToNull(h2[children[i]].Text)
        allChildrenEffectivelyUnchanged ==
            \A i \in 1..Len(children) :
               ~(/\ h2[children[i]].ChangeType # "no-op"
                 /\ ~HasPrefix(TrimSpace(h2[children[i]].Text), "#"))
    IN  IF /\ hasRealChanges \/ h2[parentNode].ChangeType \in {"create", "delete", "replace"}
           /\ ~(allChildrenEffectivelyUnchanged /\ Len(children) > 0)
        THEN [acc EXCEPT
                !.h = Alloc([h2 EXCEPT ![blockNode].Children = children],
                            createClosingBrace(depth, blockNode)),
                !.childNodes = @ \o <<blockNode, Len(h2) + 1>>]
        ELSE [acc EXCEPT !.h = h2, !.hiddenBlockCount = @ + 1]

\* "Check if this list item's changes are just empty string to null conversions" and
\* "Add closing brace", on the heap h2 that the recursive call on itemNode leaves;
\* st is [h, childNodes, listItems, hiddenItems]
itemBlock(st, h2, itemNode, itemChangeType, depth) ==
    LET children == h2[itemNode].Children
        hasOnlyEmptyToNull ==
            /\ itemChangeType # "no-op"
            /\ \A i \in 1..Len(children) :
                  \/ h2[children[i]].ChangeType = "no-op"
                  \/ HasPrefix(TrimSpace(h2[children[i]].Text), "#")
                  \/ isEmptyStringToNull(h2[children[i]].Text)
        hiddenNode == Len(h2) + 1
        h3 == IF hasOnlyEmptyToNull
              THEN Alloc([h2 EXCEPT ![itemNode].Text = "  " \o TrimLeft(@, "~+-"),
                                    ![itemNode].ChangeType = "no-op",
                                    ![itemNode].Children = <<hiddenNode>> \o @],
                         [TreeNode EXCEPT
                            !.Text = "# (All attributes unchanged - only null representation differs)",
                            !.Expanded = TRUE, !.Type = "comment", !.Depth = depth + 1,
                            !.Parent = itemNode, !.Toggleable = FALSE,
                            !.ChangeType = "no-op"])
              ELSE h2
    IN  [st EXCEPT !.h = Alloc(h3, createClosingBrace(depth, itemNode)),
                   !.listItems = @ \o <<itemNode, Len(h3) + 1>>]

RECURSIVE processAttributes(_, _, _, _, _, _, _, _)
RECURSIVE attributeLoop(_, _, _, _, _, _, _, _, _)
RECURSIVE listItemLoop(_, _, _, _, _, _, _, _, _, _, _)

\* the body of "for i := 0; i < maxLen; i++"; i is 1-based here
listItem(st, parentNode, key, beforeList, afterList, unknownAttrs, attrPrefix, changeType, i, depth, ord) ==
    LET beforeItem == IF i <= Len(beforeList) THEN beforeList[i] ELSE Null
        afterItem  == IF i <= Len(afterList) THEN afterList[i] ELSE Null
        parentChangeType == st.h[parentNode].ChangeType
        change == parentOverride(parentChangeType, itemChange(beforeItem, afterItem))
        item == IF i <= Len(afterList) THEN afterList[i] ELSE beforeList[i]
        unknownList == IF IsMap(unknownAttrs) THEN Get(unknownAttrs.v, key) ELSE Null
        nestedUnknown == IF /\ i <= Len(afterList)
                            /\ IsList(unknownList)
                            /\ i <= Len(unknownList.v)
                            /\ IsMap(unknownList.v[i])
                         THEN unknownList.v[i] ELSE Null
        itemNode == Len(st.h) + 1
        listNode == Len(st.h) + 1
    IN  IF /\ change.changeType = "no-op"
           /\ parentChangeType \notin {"create", "delete", "replace"}
        THEN [st EXCEPT !.hiddenItems = @ + 1]
        ELSE IF IsMap(item)
        THEN itemBlock(st,
               processAttributes(
                 Alloc(st.h,
                   [TreeNode EXCEPT !.Text = change.attrPrefix \o key \o "[" \o Itoa(i - 1) \o "] {",
                                    !.Expanded = FALSE, !.Type = "block", !.Depth = depth,
                                    !.Parent = parentNode, !.Toggleable = TRUE,
                                    !.ChangeType = change.changeType]),
                 itemNode,
                 IF IsMap(beforeItem) THEN beforeItem.v ELSE EmptyMap,
                 IF IsMap(afterItem) THEN afterItem.v ELSE EmptyMap,
                 nestedUnknown, depth + 1, change.attrPrefix, ord),
               itemNode, change.changeType, depth)
        ELSE [st EXCEPT
                !.h = Alloc(
                        AddNode(
                          Alloc(@, [TreeNode EXCEPT !.Text = attrPrefix \o key \o " {",
                                                    !.Expanded = FALSE, !.Type = "block",
                                                    !.Depth = depth, !.Parent = parentNode,
                                                    !.Toggleable = TRUE,
                                                    !.ChangeType = changeType]),
                          listNode,
                          [TreeNode EXCEPT !.Text = change.attrPrefix \o FormatV(item),
                                           !.Expanded = TRUE, !.Type = "attribute",
                                           !.Depth = depth + 1, !.Parent = listNode,
                                           !.Toggleable = FALSE,
                                           !.ChangeType = change.changeType]),
                        createClosingBrace(depth, listNode)),
                !.childNodes = @ \o <<listNode, listNode + 2>>]

listItemLoop(st, parentNode, key, beforeList, afterList, unknownAttrs, attrPrefix, changeType, i, depth, ord) ==
    IF i > Max(Len(beforeList), Len(afterList)) THEN st
    ELSE listItemLoop(listItem(st, parentNode, key, beforeList, afterList, unknownAttrs,
                               attrPrefix, changeType, i, depth, ord),
                      parentNode, key, beforeList, afterList, unknownAttrs, attrPrefix,
                      changeType, i + 1, depth, ord)

\* "Add hidden items message if any" and "Add all list items directly to parent", on
\* the state st the item loop leaves
listResult(acc, st, parentNode, depth) ==
    LET allItemsNoOp ==
            \A i \in 1..Len(st.listItems) :
               ~(/\ st.h[st.listItems[i]].Type = "block"
                 /\ st.h[st.listItems[i]].ChangeType # "no-op"
                 /\ ~HasPrefix(st.h[st.listItems[i]].Text, "  "))
    IN  IF st.hiddenItems > 0
        THEN IF allItemsNoOp
             THEN [acc EXCEPT !.h = st.h, !.childNodes = st.childNodes,
                              !.hiddenBlockCount = @ + 1]
             ELSE [acc EXCEPT
                     !.h = Alloc(st.h,
                             [TreeNode EXCEPT !.Text = "# (" \o Itoa(st.hiddenItems)
                                                       \o " unchanged items hidden)",
                                              !.Expanded = TRUE, !.Type = "comment",
                                              !.Depth = depth, !.Parent = parentNode,
                                              !.Toggleable = FALSE, !.ChangeType = "no-op"]),
                     !.childNodes = st.childNodes \o st.listItems \o <<Len(st.h) + 1>>]
        ELSE IF allItemsNoOp /\ Len(st.listItems) > 0
             THEN [acc EXCEPT !.h = st.h, !.childNodes = st.childNodes,
                              !.hiddenBlockCount = @ + 1]
             ELSE [acc EXCEPT !.h = st.h, !.childNodes = st.childNodes \o st.listItems]

\* the []interface{} case of the switch
listAttribute(acc, parentNode, key, beforeValue, afterValue, v, unknown, unknownAttrs, attrPrefix, changeType, depth, ord) ==
    IF Len(v.v) > 0
    THEN listResult(acc,
           listItemLoop([h |-> acc.h, childNodes |-> acc.childNodes, listItems |-> <<>>,
                         hiddenItems |-> 0],
                        parentNode, key,
                        IF IsList(beforeValue) THEN beforeValue.v ELSE <<>>,
                        IF IsList(afterValue) THEN afterValue.v ELSE <<>>,
                        unknownAttrs, attrPrefix, changeType, 1, depth, ord),
           parentNode, depth)
    ELSE [acc EXCEPT
            !.h = Alloc(@, [TreeNode EXCEPT
                              !.Text = attrPrefix \o key
                                         \o (IF unknown THEN " = (known after apply)"
                                             ELSE " = []"),
                              !.Expanded = TRUE, !.Type = "attribute", !.Depth = depth,
                              !.Parent = parentNode, !.Toggleable = FALSE,
                              !.ChangeType = changeType]),
            !.childNodes = Append(@, Len(acc.h) + 1)]

\* the map[string]interface{} case of the switch
mapAttribute(acc, parentNode, key, beforeValue, afterValue, v, unknownAttrs, attrPrefix, changeType, depth, ord) ==
    LET blockNode == Len(acc.h) + 1
        tempParent == Len(acc.h) + 2
        nestedUnknown == IF IsMap(unknownAttrs) /\ IsMap(Get(unknownAttrs.v, key))
                         THEN Get(unknownAttrs.v, key) ELSE Null
        \* "Add closing brace", on the heap h2 formatMapEntries leaves
        Inline(h2) == [acc EXCEPT !.h = Alloc(h2, createClosingBrace(depth, blockNode)),
                                  !.childNodes = @ \o <<blockNode, Len(h2) + 1>>]
    IN  IF key \in {"terraform_labels", "effective_labels", "labels", "tags"}
        THEN Inline(formatMapEntries(
                      Alloc(acc.h,
                        [TreeNode EXCEPT !.Text = attrPrefix \o key \o " = {",
                                         !.Expanded = FALSE, !.Type = "block",
                                         !.Depth = depth, !.Parent = parentNode,
                                         !.Toggleable = TRUE, !.ChangeType = changeType]),
                      blockNode, v.v, depth + 1, attrPrefix, ord))
        ELSE nestedBlock(acc,
               processAttributes(
                 Alloc(Alloc(acc.h,
                         [TreeNode EXCEPT !.Text = attrPrefix \o key \o " {",
                                          !.Expanded = FALSE, !.Type = "block",
                                          !.Depth = depth, !.Parent = parentNode,
                                          !.Toggleable = TRUE, !.ChangeType = changeType]),
                       [TreeNode EXCEPT !.ChangeType = changeType]),
                 tempParent,
                 IF IsMap(beforeValue) THEN beforeValue.v ELSE EmptyMap,
                 IF IsMap(afterValue) THEN afterValue.v ELSE EmptyMap,
                 nestedUnknown, depth + 1, attrPrefix, ord),
               parentNode, blockNode, tempParent, depth)

\* the body of "for _, key := range keys"
processAttribute(acc, parentNode, key, beforeAttrs, afterAttrs, unknownAttrs, depth, ord) ==
    LET beforeExists == key \in DOMAIN beforeAttrs
        afterExists  == key \in DOMAIN afterAttrs
        beforeValue == Get(beforeAttrs, key)
        afterValue  == Get(afterAttrs, key)
        unknownVal == IF IsMap(unknownAttrs) THEN Get(unknownAttrs.v, key) ELSE Null
        unknown == unknownVal.t = "bool" /\ unknownVal.v
        classified == attributeChange(unknown, beforeExists, afterExists, beforeValue,
                                      afterValue)
        parentChangeType == acc.h[parentNode].ChangeType
        change == parentOverride(parentChangeType, classified)
        \* "Skip processing unchanged attributes in replacements too"
        counted == IF parentChangeType = "replace" /\ classified.attrPrefix = "  "
                   THEN [acc EXCEPT !.hiddenAttrCount = @ + 1]
                   ELSE acc
        value == IF afterExists THEN afterValue ELSE beforeValue
    IN  IF /\ classified.changeType = "no-op"
           /\ parentChangeType \notin {"create", "delete", "replace"}
        THEN [acc EXCEPT !.hiddenAttrCount = @ + 1]
        ELSE IF IsNil(value) /\ ~unknown /\ change.changeType = "no-op"
        THEN [counted EXCEPT !.hiddenAttrCount = @ + 1]
        ELSE IF IsMap(value)
        THEN mapAttribute(counted, parentNode, key, beforeValue, afterValue, value,
                          unknownAttrs, change.attrPrefix, change.changeType, depth, ord)
        ELSE IF IsList(value)
        THEN listAttribute(counted, parentNode, key, beforeValue, afterValue, value, unknown,
                           unknownAttrs, change.attrPrefix, change.changeType, depth, ord)
        ELSE simpleAttribute(counted, parentNode, key, beforeExists, beforeValue, afterValue,
                             value, unknown, change.attrPrefix, change.changeType, depth)

attributeLoop(acc, parentNode, beforeAttrs, afterAttrs, unknownAttrs, keys, n, depth, ord) ==
    IF n > Len(keys) THEN acc
    ELSE attributeLoop(processAttribute(acc, parentNode, keys[n], beforeAttrs, afterAttrs,
                                        unknownAttrs, depth, ord),
                       parentNode, beforeAttrs, afterAttrs, unknownAttrs, keys, n + 1,
                       depth, ord)

\* "Add hidden attributes message if any" and "Add hidden blocks message if any"
hiddenMessage(acc, count, noun, parentNode, depth) ==
    IF count > 0
    THEN [acc EXCEPT
            !.h = Alloc(@, [TreeNode EXCEPT
                              !.Text = "# (" \o Itoa(count) \o " unchanged "
                                         \o (IF count > 1 THEN noun \o "s" ELSE noun)
                                         \o " hidden)",
                              !.Expanded = TRUE, !.Type = "comment", !.Depth = depth,
                              !.Parent = parentNode, !.Toggleable = FALSE,
                              !.ChangeType = "no-op"]),
            !.childNodes = Append(@, Len(acc.h) + 1)]
    ELSE acc

\* the hidden messages and "Add all child nodes to parent", on the state acc the key
\* loop leaves: the heap
appendChildNodes(acc, parentNode, depth) ==
    LET Appended(a) == [a.h EXCEPT ![parentNode].Children = @ \o a.childNodes]
    IN  Appended(hiddenMessage(hiddenMessage(acc, acc.hiddenAttrCount, "attribute",
                                             parentNode, depth),
                               acc.hiddenBlockCount, "block", parentNode, depth))

\* "Add any unknown attributes that aren't in the original map": the body of
\* "for k, v := range unknownAttrs", over the keys ks in the order range yields them
RECURSIVE unknownLoop(_, _, _, _, _, _, _, _)
unknownLoop(h, parentNode, beforeAttrs, afterAttrs, unknownAttrs, ks, n, depth) ==
    IF n > Len(ks) THEN h
    ELSE unknownLoop(
           IF ks[n] \in DOMAIN beforeAttrs \/ ks[n] \in DOMAIN afterAttrs THEN h
           ELSE IF unknownAttrs.v[ks[n]].t = "bool" /\ unknownAttrs.v[ks[n]].v
           THEN AddNode(h, parentNode,
                  [TreeNode EXCEPT !.Text = "+ " \o ks[n] \o " = (known after apply)",
                                   !.Expanded = TRUE, !.Type = "attribute", !.Depth = depth,
                                   !.Parent = parentNode, !.Toggleable = FALSE,
                                   !.ChangeType = "create"])
           ELSE IF IsMap(unknownAttrs.v[ks[n]]) /\ DOMAIN unknownAttrs.v[ks[n]].v # {}
           THEN AddNode(h, parentNode,
                  [TreeNode EXCEPT !.Text = "+ " \o ks[n] \o " (known after apply)",
                                   !.Expanded = FALSE, !.Type = "block", !.Depth = depth,
                                   !.Parent = parentNode, !.Toggleable = TRUE,
                                   !.ChangeType = "create"])
           ELSE h,
           parentNode, beforeAttrs, afterAttrs, unknownAttrs, ks, n + 1, depth)

\* processAttributes: the heap it leaves
processAttributes(h, parentNode, beforeAttrs, afterAttrs, unknownAttrs, depth, prefix, ord) ==
    unknownLoop(
      appendChildNodes(
        attributeLoop([h |-> h, childNodes |-> <<>>, hiddenAttrCount |-> 0,
                       hiddenBlockCount |-> 0],
                      parentNode, beforeAttrs, afterAttrs, unknownAttrs,
                      SortStrings(RangeKeys([k \in DOMAIN beforeAttrs \cup DOMAIN afterAttrs
                                               |-> TRUE], ord)),
                      1, depth, ord),
        parentNode, depth),
      parentNode, beforeAttrs, afterAttrs, unknownAttrs,
      IF IsMap(unknownAttrs) THEN RangeKeys(unknownAttrs.v, ord) ELSE <<>>,
      1, depth)

\* "Determine the prefix and change type based on the actions":
\* [resourcePrefix, actionText, changeType]
resourceAction(actions) ==
    IF contains(actions, "delete") /\ (contains(actions, "create") \/ contains(actions, "read"))
    THEN [resourcePrefix |-> "-/+ ", actionText |-> "will be replaced", changeType |-> "replace"]
    ELSE CASE actions[1] = "create" ->
                [resourcePrefix |-> "+ ", actionText |-> "will be created", changeType |-> "create"]
           [] actions[1] = "update" ->
                [resourcePrefix |-> "~ ", actionText |-> "will be updated", changeType |-> "update"]
           [] actions[1] = "delete" ->
                [resourcePrefix |-> "- ", actionText |-> "will be destroyed", changeType |-> "delete"]
           [] OTHER ->
                [resourcePrefix |-> "? ", actionText |-> Join(actions, ", "),
                 changeType |-> "unknown"]

\* the body of "for _, change := range plan.ResourceChanges"; the root is heap[1]
RECURSIVE resourceChangeLoop(_, _, _, _)
resourceChangeLoop(h, resourceChanges, i, ord) ==
    IF i > Len(resourceChanges) THEN h
    ELSE
      LET change == resourceChanges[i].v
          changeData == IF IsMap(Get(change, "change")) THEN Get(change, "change").v
                        ELSE EmptyMap
          actions == IF IsList(Get(changeData, "actions"))
                     THEN actionStrings(Get(changeData, "actions").v) ELSE <<>>
          action == resourceAction(actions)
          resourceNode == Len(h) + 1
          resourceDefNode == Len(h) + 2
      IN  IF Len(actions) = 0 \/ actions[1] = "no-op"
          THEN resourceChangeLoop(h, resourceChanges, i + 1, ord)
          ELSE resourceChangeLoop(
                 AddNode(
                   processAttributes(
                     AddNode(
                       AddNode(h, 1,
                         [TreeNode EXCEPT !.Text = "# " \o AsString(Get(change, "address"))
                                                    \o " " \o action.actionText,
                                          !.Expanded = TRUE, !.Type = "resource", !.Depth = 0,
                                          !.Parent = 1, !.Toggleable = FALSE,
                                          !.ChangeType = action.changeType]),
                       1,
                       [TreeNode EXCEPT !.Text = action.resourcePrefix \o "resource \""
                                                  \o AsString(Get(change, "type")) \o "\" \""
                                                  \o AsString(Get(change, "name")) \o "\" {",
                                        !.Expanded = FALSE, !.Type = "block", !.Depth = 0,
                                        !.Parent = 1, !.Toggleable = TRUE,
                                        !.ChangeType = action.changeType]),
                     resourceDefNode,
                     IF IsMap(Get(changeData, "before")) THEN Get(changeData, "before").v
                     ELSE EmptyMap,
                     IF IsMap(Get(changeData, "after")) THEN Get(changeData, "after").v
                     ELSE EmptyMap,
                     IF IsMap(Get(changeData, "after_unknown"))
                     THEN Get(changeData, "after_unknown") ELSE Null,
                     2, action.resourcePrefix, ord),
                   resourceDefNode, createClosingBrace(0, resourceDefNode)),
                 resourceChanges, i + 1, ord)

\* parsePlanJSON once the text is decoded into the TerraformPlan: the heap, its root heap[1].
\* dec is Unmarshal's [err, plan]; the inputs are texts without a double quote and
\* documents whose members have the types of models.go, for which decoding into the
\* struct fails exactly when decoding into a map does
decodedResourceChanges(dec, ord) ==
    IF dec.err # ""
    THEN AddNode(<<[TreeNode EXCEPT !.Text = "Terraform Plan", !.Expanded = TRUE,
                                    !.IsRoot = TRUE, !.Toggleable = TRUE]>>,
                 1,
                 [TreeNode EXCEPT !.Text = "Error parsing JSON: " \o dec.err,
                                  !.Expanded = TRUE, !.Type = "error", !.Depth = 0,
                                  !.Parent = 1, !.Toggleable = FALSE])
    ELSE resourceChangeLoop(<<[TreeNode EXCEPT !.Text = "Terraform Plan", !.Expanded = TRUE,
                                               !.IsRoot = TRUE, !.Toggleable = TRUE]>>,
                            IF IsList(Get(dec.plan, "resource_changes"))
                            THEN Get(dec.plan, "resource_changes").v ELSE <<>>,
                            1, ord)

\* parsePlanJSON: [h, nodes], the heap and root.Children
parsePlanJSON(jsonPlan, ord) ==
    LET Children(h) == [h |-> h, nodes |-> h[1].Children]
    IN  Children(decodedResourceChanges(Unmarshal(jsonPlan), ord))

-----------------------------------------------------------------------------
(* The navigator's helpers.                                                 *)

\* getVisibleNodes
RECURSIVE getVisibleNodes(_, _)
getVisibleNodes(h, ns) ==
    IF ns = <<>> THEN <<>>
    ELSE <<Head(ns)>>
         \o (IF h[Head(ns)].Expanded THEN getVisibleNodes(h, h[Head(ns)].Children) ELSE <<>>)
         \o getVisibleNodes(h, Tail(ns))

\* flattenNodes
RECURSIVE flattenNodes(_, _)
flattenNodes(h, ns) ==
    IF ns = <<>> THEN <<>>
    ELSE <<Head(ns)>>
         \o (IF h[Head(ns)].Expanded THEN flattenNodes(h, h[Head(ns)].Children) ELSE <<>>)
         \o flattenNodes(h, Tail(ns))

\* the node alone expanded, its descendants left as they are
expandNodeOnly(h, node) ==
    IF Len(h[node].Children) > 0 THEN [h EXCEPT ![node].Expanded = TRUE] ELSE h

\* expandAllNodes, and the same over a list of nodes
RECURSIVE expandAllNodes(_, _)
RECURSIVE expandAllList(_, _)
expandAllNodes(h, node) ==
    IF Len(h[node].Children) > 0
    THEN expandAllList([h EXCEPT ![node].Expanded = TRUE], h[node].Children)
    ELSE h

expandAllList(h, ns) ==
    IF ns = <<>> THEN h ELSE expandAllList(expandAllNodes(h, Head(ns)), Tail(ns))

\* collapseAllNodes, and the body of its loop over the children
RECURSIVE collapseAllNodes(_, _)
RECURSIVE collapseChildren(_, _)
collapseAllNodes(h, node) ==
    collapseChildren([h EXCEPT ![node].Expanded = FALSE], h[node].Children)

collapseChildren(h, ns) ==
    IF ns = <<>> THEN h
    ELSE collapseChildren(collapseAllNodes([h EXCEPT ![Head(ns)].Expanded = FALSE], Head(ns)),
                          Tail(ns))

\* the window placed by the whole windowHeight, the status bar's line not set aside
ensureWithinFullHeight(c, top, height, nVisible) ==
    LET c1 == IF c >= nVisible THEN nVisible - 1 ELSE c
        c2 == IF c1 < 0 THEN 0 ELSE c1
        t1 == IF c2 >= top + height THEN c2 - height + 1 ELSE top
        t2 == IF c2 < top THEN c2 ELSE t1
    IN  [cursor |-> c2, windowTop |-> IF t2 < 0 THEN 0 ELSE t2]

\* ensureCursorVisible: [cursor, windowTop] from the model's cursor, windowTop,
\* windowHeight and the number of visible nodes
ensureCursorVisible(c, top, height, nVisible) ==
    LET c1 == IF c >= nVisible THEN nVisible - 1 ELSE c
        c2 == IF c1 < 0 THEN 0 ELSE c1
        effectiveWindowHeight == IF height - 1 < 1 THEN 1 ELSE height - 1
        cursorBelowWindow == c2 >= top + effectiveWindowHeight
        cursorAboveWindow == c2 < top
        t1 == IF cursorBelowWindow THEN c2 - effectiveWindowHeight + 1 ELSE top
        t2 == IF cursorAboveWindow THEN c2 ELSE t1
        t3 == IF c2 > 2 /\ t2 = c2 THEN c2 - 2 ELSE t2
        t4 == IF t3 < 0 THEN 0 ELSE t3
        t5 == IF c2 < t4 \/ c2 >= t4 + effectiveWindowHeight
              THEN IF c2 < effectiveWindowHeight THEN 0
                   ELSE Max(0, c2 - (effectiveWindowHeight \div 2))
              ELSE t4
    IN  [cursor |-> c2, windowTop |-> t5]

\* the indices of the matching nodes counted from 1 where the cursor counts from 0:
\* the results of a search that C2 does not hold for
matchingPositions(h, ns, str) ==
    LET hit == {i \in 1..Len(ns) : Contains(h[ns[i]].Text, str)}
        RECURSIVE asc(_)
        asc(S) == IF S = {} THEN <<>>
                  ELSE LET m == CHOOSE x \in S : \A y \in S : x <= y
                       IN  <<m>> \o asc(S \ {m})
    IN  asc(hit)

\* the indices (0-based) of the nodes of ns whose text contains str
matchingIndices(h, ns, str) ==
    LET hit == {i \in 1..Len(ns) : Contains(h[ns[i]].Text, str)}
        RECURSIVE asc(_)
        asc(S) == IF S = {} THEN <<>>
                  ELSE LET m == CHOOSE x \in S : \A y \in S : x <= y
                       IN  <<m - 1>> \o asc(S \ {m})
    IN  asc(hit)

\* the heap after "for _, rootNode := range m.nodes { expandAllNodes(rootNode) }"
expandForest(h, ns) == expandAllList(h, ns)

\* the matches taken from the list as it is before the forest is expanded
searchBeforeExpanding(h, ns, str) ==
    [h |-> expandForest(h, ns),
     allNodes |-> flattenNodes(expandForest(h, ns), ns),
     results |-> matchingIndices(h, flattenNodes(h, ns), str)]

\* getSearchResults: [h, allNodes, results]
getSearchResults(h, ns, str) ==
    LET h1 == expandForest(h, ns)
        all == flattenNodes(h1, ns)
    IN  [h |-> h1, allNodes |-> all, results |-> matchingIndices(h1, all, str)]

\* New: the root loop, "Expanded = (Type == section || IsRoot)" then collapse the children
RECURSIVE newRoots(_, _)
newRoots(h, ns) ==
    IF ns = <<>> THEN h
    ELSE LET node == Head(ns)
             h1 == [h EXCEPT ![node].Expanded = (h[node].Type = "section" \/ h[node].IsRoot)]
             RECURSIVE each(_, _)
             each(hh, cs) == IF cs = <<>> THEN hh
                             ELSE each(collapseAllNodes(hh, Head(cs)), Tail(cs))
         IN  newRoots(each(h1, h1[node].Children), Tail(ns))

-----------------------------------------------------------------------------
(* Bounds and inputs of the model.                                          *)

\* the longest search string typed
MaxSearchLen == 2

\* the largest horizontal offset scrolled to
MaxHOffset == 20

\* New's windowHeight and width
InitialWindowHeight == 25
InitialWidth == 80

\* WindowSizeMsg: rows reserved for header and footer, and the least height kept
ReservedRows == 3
MinWindowHeight == 5

\* horizontal scrolling: the key's step, the wheel's step, the maximum
KeyScrollStep == 10
WheelScrollStep == 20
MaxHorizontalOffset == 500

\* the terminal sizes a WindowSizeMsg reports
TermHeights == {7, 28}
TermWidths == {120}

\* the keys typed into the search prompt
TypedKeys == {">", "up"}

-----------------------------------------------------------------------------
(* Update.  One action for each case of its switch statements.              *)

Running == pc = "running" /\ ~quitting
\* any mode of a session that has not quit
AnyMode == pc = "running" /\ ~quitting
Normal == Running /\ ~searchMode /\ ~inputSearchModel
SearchInput == Running /\ ~(~searchMode /\ ~inputSearchModel) /\ inputSearchModel
SearchActive == Running /\ ~(~searchMode /\ ~inputSearchModel) /\ ~inputSearchModel /\ searchMode

visibleNodes == getVisibleNodes(heap, nodes)

\* the variables of the comparison calls and of RunCommand, which the plan viewer
\* never touches
callVars == <<operands, verdicts>>
commandVars ==
    <<redirectOutput, script, runPc, process, cmdPipe, progressPipe, copier,
      progressReader, captured, spinnerProgram, ticks, cmdResult>>

inputVars == <<planOutput, mapOrder, pc, callVars, commandVars>>
searchVars == <<inputSearchModel, searchMode, searchString, searchResults, searchIndex>>
screenVars == <<horizontalOffset, width, quitting, ready, showHelp>>
forestVars == <<heap, nodes, allNodes>>

\* ensureCursorVisible(&m) with the cursor at c and the forest h
EnsureVisible(c, h) ==
    LET r == ensureCursorVisible(c, windowTop, windowHeight, Len(getVisibleNodes(h, nodes)))
    IN  cursor' = r.cursor /\ windowTop' = r.windowTop

\* case tea.WindowSizeMsg
WindowSize(msgWidth, msgHeight) ==
    LET newHeight == IF msgHeight - ReservedRows < MinWindowHeight
                     THEN MinWindowHeight ELSE msgHeight - ReservedRows
        maxTop == Max(0, Len(visibleNodes) - newHeight)
        top == IF windowTop > maxTop THEN maxTop ELSE windowTop
        r == ensureCursorVisible(cursor, top, newHeight, Len(visibleNodes))
    IN  /\ Running
        /\ windowHeight' = newHeight
        /\ width' = msgWidth
        /\ ready' = TRUE
        /\ IF windowHeight # newHeight
           THEN cursor' = r.cursor /\ windowTop' = r.windowTop
           ELSE UNCHANGED <<cursor, windowTop>>
        /\ UNCHANGED <<inputVars, forestVars, searchVars, horizontalOffset, quitting, showHelp>>

\* case "q", "b", "ctrl+c"
KeyQuit ==
    /\ Normal
    /\ quitting' = TRUE
    /\ UNCHANGED <<inputVars, forestVars, searchVars, cursor, windowTop, windowHeight,
                   horizontalOffset, width, ready, showHelp>>

\* case "?"
KeyHelp ==
    /\ Normal
    /\ showHelp' = ~showHelp
    /\ UNCHANGED <<inputVars, forestVars, searchVars, cursor, windowTop, windowHeight,
                   horizontalOffset, width, quitting, ready>>

\* case "up", "k"
KeyUp ==
    /\ Normal
    /\ IF cursor > 0 THEN EnsureVisible(cursor - 1, heap) ELSE UNCHANGED <<cursor, windowTop>>
    /\ UNCHANGED <<inputVars, forestVars, searchVars, screenVars, windowHeight>>

\* down that goes from the last visible node to the first
KeyDownWrapping ==
    /\ Normal
    /\ EnsureVisible(IF cursor < Len(visibleNodes) - 1 THEN cursor + 1 ELSE 0, heap)
    /\ UNCHANGED <<inputVars, forestVars, searchVars, screenVars, windowHeight>>

\* case "down", "j"
KeyDown ==
    /\ Normal
    /\ IF cursor < Len(visibleNodes) - 1
       THEN EnsureVisible(cursor + 1, heap) ELSE UNCHANGED <<cursor, windowTop>>
    /\ UNCHANGED <<inputVars, forestVars, searchVars, screenVars, windowHeight>>

\* case "right", "l"
KeyRight ==
    /\ Normal
    /\ horizontalOffset + KeyScrollStep <= MaxHOffset
    /\ horizontalOffset' = Min(horizontalOffset + KeyScrollStep, MaxHorizontalOffset)
    /\ UNCHANGED <<inputVars, forestVars, searchVars, cursor, windowTop, windowHeight,
                   width, quitting, ready, showHelp>>

\* case "left", "h"
KeyLeft ==
    /\ Normal
    /\ horizontalOffset' = Max(horizontalOffset - KeyScrollStep, 0)
    /\ UNCHANGED <<inputVars, forestVars, searchVars, cursor, windowTop, windowHeight,
                   width, quitting, ready, showHelp>>

\* space that toggles the node under the cursor whatever its children and its
\* toggleable flag
KeySpaceAnyNode ==
    /\ Normal
    /\ IF cursor >= 0 /\ cursor < Len(visibleNodes)
       THEN /\ heap' = [heap EXCEPT ![visibleNodes[cursor + 1]].Expanded = ~@]
            /\ allNodes' = flattenNodes(heap', nodes)
            /\ EnsureVisible(cursor, heap')
       ELSE UNCHANGED <<heap, allNodes, cursor, windowTop>>
    /\ UNCHANGED <<inputVars, nodes, searchVars, screenVars, windowHeight>>

\* case " "
KeySpace ==
    LET currentNode == visibleNodes[cursor + 1]
        h1 == [heap EXCEPT ![currentNode].Expanded = ~@]
        n1 == Len(getVisibleNodes(h1, nodes))
        c1 == IF cursor >= n1 THEN Max(n1 - 1, 0) ELSE cursor
    IN  /\ Normal
        /\ IF /\ cursor >= 0 /\ cursor < Len(visibleNodes)
              /\ Len(heap[currentNode].Children) > 0 /\ heap[currentNode].Toggleable
           THEN /\ heap' = h1
                /\ allNodes' = flattenNodes(h1, nodes)
                /\ EnsureVisible(c1, h1)
           ELSE UNCHANGED <<heap, allNodes, cursor, windowTop>>
        /\ UNCHANGED <<inputVars, nodes, searchVars, screenVars, windowHeight>>

\* the index of the first occurrence of node in ns, 0-based; -1 when absent
indexOf(ns, node) ==
    IF \E i \in 1..Len(ns) : ns[i] = node
    THEN (CHOOSE i \in 1..Len(ns) : ns[i] = node /\ \A j \in 1..(i - 1) : ns[j] # node) - 1
    ELSE -1

\* backspace that, on an expanded node, collapses it and also leaves it for its
\* parent
KeyBackspaceLeaving ==
    LET currentNode == visibleNodes[cursor + 1]
        h1 == [heap EXCEPT ![currentNode].Expanded = FALSE]
        parentAt == indexOf(visibleNodes, heap[currentNode].Parent)
    IN  /\ Normal
        /\ horizontalOffset' = 0
        /\ IF cursor >= 0 /\ cursor < Len(visibleNodes)
           THEN /\ heap' = h1
                /\ allNodes' = flattenNodes(h1, nodes)
                /\ cursor' = IF parentAt >= 0 THEN parentAt ELSE cursor
           ELSE UNCHANGED <<heap, allNodes, cursor>>
        /\ UNCHANGED <<inputVars, nodes, searchVars, windowTop, windowHeight, width, quitting, ready, showHelp>>

\* case "backspace"
KeyBackspace ==
    LET currentNode == visibleNodes[cursor + 1]
        h1 == [heap EXCEPT ![currentNode].Expanded = FALSE]
        parentAt == indexOf(visibleNodes, heap[currentNode].Parent)
    IN  /\ Normal
        /\ horizontalOffset' = 0
        /\ IF cursor >= 0 /\ cursor < Len(visibleNodes)
           THEN IF heap[currentNode].Expanded /\ Len(heap[currentNode].Children) > 0
                THEN /\ heap' = h1
                     /\ allNodes' = flattenNodes(h1, nodes)
                     /\ UNCHANGED cursor
                ELSE IF heap[currentNode].Parent # 0 /\ parentAt >= 0
                THEN cursor' = parentAt /\ UNCHANGED <<heap, allNodes>>
                ELSE UNCHANGED <<heap, allNodes, cursor>>
           ELSE UNCHANGED <<heap, allNodes, cursor>>
        /\ UNCHANGED <<inputVars, nodes, searchVars, windowTop, windowHeight, width,
                       quitting, ready, showHelp>>

\* case "enter"
KeyEnter ==
    LET currentNode == visibleNodes[cursor + 1]
        h1 == IF Len(heap[currentNode].Children) > 0 /\ heap[currentNode].Toggleable
              THEN IF heap[currentNode].Expanded
                   THEN collapseAllNodes(heap, currentNode)
                   ELSE expandAllNodes(heap, currentNode)
              ELSE heap
    IN  /\ Normal
        /\ IF cursor >= 0 /\ cursor < Len(visibleNodes)
           THEN /\ heap' = h1
                /\ allNodes' = flattenNodes(h1, nodes)
                /\ EnsureVisible(cursor, h1)
           ELSE UNCHANGED <<heap, allNodes, cursor, windowTop>>
        /\ UNCHANGED <<inputVars, nodes, searchVars, screenVars, windowHeight>>

\* case "a"
KeyExpandAll ==
    LET h1 == expandForest(heap, nodes)
    IN  /\ Normal
        /\ heap' = h1
        /\ allNodes' = flattenNodes(h1, nodes)
        /\ EnsureVisible(cursor, h1)
        /\ UNCHANGED <<inputVars, nodes, searchVars, screenVars, windowHeight>>

\* the condition of case "A" for one node of m.allNodes; it dereferences
\* node.Parent when node.IsRoot holds
collapseCondition(h, node) ==
    Len(h[node].Children) > 0 /\ (~h[node].IsRoot \/ ~h[h[node].Parent].IsRoot)

\* whether case "A" dereferences a nil Parent
collapsePanics(h, all) ==
    \E i \in 1..Len(all) :
        Len(h[all[i]].Children) > 0 /\ h[all[i]].IsRoot /\ h[all[i]].Parent = 0

\* the heap after the loop of case "A"
collapseVisible(h, all) ==
    [p \in 1..Len(h) |->
        IF (\E i \in 1..Len(all) : all[i] = p) /\ collapseCondition(h, p)
        THEN [h[p] EXCEPT !.Expanded = FALSE] ELSE h[p]]

\* case "A"
KeyCollapseAll ==
    LET h1 == collapseVisible(heap, allNodes)
    IN  /\ Normal
        /\ IF collapsePanics(heap, allNodes)
           THEN pc' = "crashed" /\ UNCHANGED <<heap, allNodes, cursor, windowTop>>
           ELSE /\ heap' = h1
                /\ allNodes' = flattenNodes(h1, nodes)
                /\ EnsureVisible(0, h1)
                /\ UNCHANGED pc
        /\ UNCHANGED <<planOutput, mapOrder, nodes, searchVars, screenVars, windowHeight,
                       callVars, commandVars>>

\* the least index in lo..hi (0-based) of a root resource in vis, -1 when none
firstRootIn(h, vis, lo, hi) ==
    LET S == {i \in lo..hi : isRootResource(h[vis[i + 1]])}
    IN  IF S = {} THEN -1 ELSE CHOOSE i \in S : \A j \in S : i <= j

\* the greatest index in lo..hi (0-based) of a root resource in vis, -1 when none
lastRootIn(h, vis, lo, hi) ==
    LET S == {i \in lo..hi : isRootResource(h[vis[i + 1]])}
    IN  IF S = {} THEN -1 ELSE CHOOSE i \in S : \A j \in S : i >= j

\* the first search of case "n" alone: no wrapping to the beginning
nextRootAfter(h, vis, c) ==
    IF firstRootIn(h, vis, c + 1, Len(vis) - 1) >= 0
    THEN firstRootIn(h, vis, c + 1, Len(vis) - 1) ELSE c

\* case "n": the cursor after the two searches
nextRoot(h, vis, c) ==
    LET startPos == IF c + 1 >= Len(vis) THEN 0 ELSE c + 1
        first == firstRootIn(h, vis, startPos, Len(vis) - 1)
        second == firstRootIn(h, vis, 0, startPos - 1)
    IN  IF first >= 0 THEN first
        ELSE IF startPos > 0 /\ second >= 0 THEN second
        ELSE c

\* case "N": the cursor after the two searches
previousRoot(h, vis, c) ==
    LET startPos == IF c - 1 < 0 THEN Len(vis) - 1 ELSE c - 1
        first == lastRootIn(h, vis, 0, startPos)
        second == lastRootIn(h, vis, startPos + 1, Len(vis) - 1)
    IN  IF first >= 0 THEN first
        ELSE IF startPos < Len(vis) - 1 /\ second >= 0 THEN second
        ELSE c

\* case "n"
KeyNextRoot ==
    /\ Normal
    /\ IF Len(visibleNodes) > 0
       THEN EnsureVisible(nextRoot(heap, visibleNodes, cursor), heap)
       ELSE UNCHANGED <<cursor, windowTop>>
    /\ UNCHANGED <<inputVars, forestVars, searchVars, screenVars, windowHeight>>

\* case "N"
KeyPreviousRoot ==
    /\ Normal
    /\ IF Len(visibleNodes) > 0
       THEN EnsureVisible(previousRoot(heap, visibleNodes, cursor), heap)
       ELSE UNCHANGED <<cursor, windowTop>>
    /\ UNCHANGED <<inputVars, forestVars, searchVars, screenVars, windowHeight>>

\* case "home", "g"
KeyHome ==
    /\ Normal
    /\ horizontalOffset' = 0
    /\ EnsureVisible(0, heap)
    /\ UNCHANGED <<inputVars, forestVars, searchVars, windowHeight, width, quitting,
                   ready, showHelp>>

\* end that puts the cursor at the length of the visible list, past its last index,
\* and does not call ensureCursorVisible
KeyEndPastLast ==
    /\ Normal
    /\ horizontalOffset' = 0
    /\ cursor' = Len(visibleNodes)
    /\ UNCHANGED <<inputVars, forestVars, searchVars, windowTop, windowHeight, width,
                   quitting, ready, showHelp>>

\* case "end", "G"
KeyEnd ==
    /\ Normal
    /\ IF Len(visibleNodes) > 0
       THEN horizontalOffset' = 0 /\ EnsureVisible(Len(visibleNodes) - 1, heap)
       ELSE UNCHANGED <<horizontalOffset, cursor, windowTop>>
    /\ UNCHANGED <<inputVars, forestVars, searchVars, windowHeight, width, quitting,
                   ready, showHelp>>

\* case "/"
KeySlash ==
    /\ Normal
    /\ inputSearchModel' = TRUE
    /\ UNCHANGED <<inputVars, forestVars, cursor, windowTop, windowHeight, screenVars,
                   searchMode, searchString, searchResults, searchIndex>>

\* any other key in Normal mode: no case matches
KeyOther ==
    /\ Normal
    /\ UNCHANGED <<inputVars, forestVars, searchVars, screenVars, cursor, windowTop,
                   windowHeight>>

\* search prompt, case "enter"
SearchInputEnter ==
    LET found == getSearchResults(heap, nodes, searchString)
    IN  /\ SearchInput
        /\ IF Len(searchString) > 0
           THEN /\ searchMode' = TRUE
                /\ inputSearchModel' = FALSE
                /\ searchResults' = found.results
                /\ heap' = found.h
                /\ allNodes' = found.allNodes
                /\ IF Len(found.results) > 0
                   THEN searchIndex' = 0 /\ EnsureVisible(found.results[1], found.h)
                   ELSE UNCHANGED <<searchIndex, cursor, windowTop>>
                /\ UNCHANGED searchString
           ELSE /\ searchString' = ""
                /\ inputSearchModel' = FALSE
                /\ UNCHANGED <<searchMode, searchResults, searchIndex, heap, allNodes,
                               cursor, windowTop>>
        /\ UNCHANGED <<inputVars, nodes, screenVars, windowHeight>>

\* search prompt, case "esc", "ctrl+c"
SearchInputCancel ==
    /\ SearchInput
    /\ searchMode' = FALSE
    /\ inputSearchModel' = FALSE
    /\ searchString' = ""
    /\ UNCHANGED <<inputVars, forestVars, screenVars, cursor, windowTop, windowHeight,
                   searchResults, searchIndex>>

\* search prompt, case "backspace"
SearchInputBackspace ==
    /\ SearchInput
    /\ searchString' = IF Len(searchString) > 0
                       THEN SubSeq(searchString, 1, Len(searchString) - 1)
                       ELSE searchString
    /\ UNCHANGED <<inputVars, forestVars, screenVars, cursor, windowTop, windowHeight,
                   inputSearchModel, searchMode, searchResults, searchIndex>>

\* a key that is appended and confirms the search at once
SearchInputTypeAndConfirm(key) ==
    /\ SearchInput
    /\ Len(searchString) + Len(key) <= MaxSearchLen
    /\ searchString' = IF Len(key) > 0 THEN searchString \o key ELSE searchString
    /\ searchMode' = TRUE
    /\ inputSearchModel' = FALSE
    /\ UNCHANGED <<inputVars, forestVars, screenVars, cursor, windowTop, windowHeight,
                   searchResults, searchIndex>>

\* search prompt, default: the key's name is appended
SearchInputType(key) ==
    /\ SearchInput
    /\ Len(searchString) + Len(key) <= MaxSearchLen
    /\ searchString' = IF Len(key) > 0 THEN searchString \o key ELSE searchString
    /\ UNCHANGED <<inputVars, forestVars, screenVars, cursor, windowTop, windowHeight,
                   inputSearchModel, searchMode, searchResults, searchIndex>>

\* findNext that stops at the first and at the last match
findNextUntilEnd(direction) ==
    LET i1 == searchIndex + direction
        i2 == IF i1 < 0 THEN 0 ELSE i1
        i3 == IF i2 >= Len(searchResults) THEN Len(searchResults) - 1 ELSE i2
    IN  [searchIndex |-> i3, cursor |-> searchResults[i3 + 1]]

\* findNext: [searchIndex, cursor] before ensureCursorVisible
findNext(direction) ==
    LET i1 == searchIndex + direction
        i2 == IF i1 < 0 THEN Len(searchResults) - 1 ELSE i1
        i3 == IF i2 >= Len(searchResults) THEN 0 ELSE i2
    IN  [searchIndex |-> i3, cursor |-> searchResults[i3 + 1]]

\* search results, case "n" (direction 1) and case "N" (direction -1)
SearchFind(direction) ==
    /\ SearchActive
    /\ IF Len(searchResults) = 0
       THEN UNCHANGED <<searchIndex, cursor, windowTop>>
       ELSE /\ searchIndex' = findNext(direction).searchIndex
            /\ EnsureVisible(findNext(direction).cursor, heap)
    /\ UNCHANGED <<inputVars, forestVars, screenVars, windowHeight, inputSearchModel,
                   searchMode, searchString, searchResults>>

SearchNext == SearchFind(1)

SearchPrevious == SearchFind(-1)

\* search results, default
SearchExit ==
    /\ SearchActive
    /\ searchMode' = FALSE
    /\ searchString' = ""
    /\ UNCHANGED <<inputVars, forestVars, screenVars, cursor, windowTop, windowHeight,
                   inputSearchModel, searchResults, searchIndex>>

\* case tea.MouseButtonWheelUp
MouseWheelUp ==
    /\ Running
    /\ IF cursor > 0 THEN EnsureVisible(cursor - 1, heap) ELSE UNCHANGED <<cursor, windowTop>>
    /\ UNCHANGED <<inputVars, forestVars, searchVars, screenVars, windowHeight>>

\* case tea.MouseButtonWheelDown
MouseWheelDown ==
    /\ Running
    /\ IF cursor < Len(visibleNodes) - 1
       THEN EnsureVisible(cursor + 1, heap) ELSE UNCHANGED <<cursor, windowTop>>
    /\ UNCHANGED <<inputVars, forestVars, searchVars, screenVars, windowHeight>>

\* case tea.MouseButtonWheelRight
MouseWheelRight ==
    /\ Running
    /\ horizontalOffset' = Max(horizontalOffset - WheelScrollStep, 0)
    /\ UNCHANGED <<inputVars, forestVars, searchVars, cursor, windowTop, windowHeight,
                   width, quitting, ready, showHelp>>

\* case tea.MouseButtonWheelLeft
MouseWheelLeft ==
    /\ Running
    /\ horizontalOffset + WheelScrollStep <= MaxHOffset
    /\ horizontalOffset' = Min(horizontalOffset + WheelScrollStep, MaxHorizontalOffset)
    /\ UNCHANGED <<inputVars, forestVars, searchVars, cursor, windowTop, windowHeight,
                   width, quitting, ready, showHelp>>

-----------------------------------------------------------------------------
(* New and the specifications.                                              *)

\* Show: New(planOutput) builds the model the program runs on
Start ==
    LET \* "m.allNodes = flattenNodes(m.nodes)", on the heap h1 the root loop leaves
        Built(parsed, h1) ==
            /\ pc' = "running"
            /\ heap' = h1
            /\ nodes' = parsed.nodes
            /\ allNodes' = flattenNodes(h1, parsed.nodes)
        New(parsed) ==
            IF parsed.panic
            THEN /\ pc' = "crashed"
                 /\ UNCHANGED <<heap, nodes, allNodes>>
            ELSE Built(parsed, newRoots(parsed.h, parsed.nodes))
    IN  /\ pc = "input"
        /\ New(parsePlan(planOutput, mapOrder))
        /\ UNCHANGED <<planOutput, mapOrder, cursor, windowTop, windowHeight, screenVars,
                       searchVars, callVars, commandVars>>

\* parsePlanJSON applied to the input: the forest it returns
StartJSON ==
    LET Returned(parsed) ==
            /\ heap' = parsed.h
            /\ nodes' = parsed.nodes
    IN  /\ pc = "input"
        /\ pc' = "built"
        /\ Returned(parsePlanJSON(planOutput, mapOrder))
        /\ UNCHANGED <<planOutput, mapOrder, allNodes, cursor, windowTop, windowHeight,
                       screenVars, searchVars, callVars, commandVars>>

\* the fields New sets beside the forest
InitModel ==
    /\ pc = "input"
    /\ heap = <<>>
    /\ nodes = <<>>
    /\ allNodes = <<>>
    /\ cursor = 0
    /\ windowTop = 0
    /\ windowHeight = InitialWindowHeight
    /\ horizontalOffset = 0
    /\ width = InitialWidth
    /\ quitting = FALSE
    /\ ready = FALSE
    /\ showHelp = FALSE
    /\ inputSearchModel = FALSE
    /\ searchMode = FALSE
    /\ searchString = ""
    /\ searchResults = <<>>
    /\ searchIndex = 0

\* the two streams of the terraform process
Streams == {"stdout", "stderr"}

\* no comparison has been called, and RunCommand has not been entered
NoCall == operands = <<>> /\ verdicts = <<>>
NoCommand ==
    /\ redirectOutput = FALSE
    /\ script = [stdout |-> "", stderr |-> "", fails |-> FALSE]
    /\ runPc = "idle"
    /\ process = [state |-> "none", stdout |-> "", stderr |-> ""]
    /\ cmdPipe = [s \in Streams |-> [data |-> "", closed |-> FALSE]]
    /\ progressPipe = [s \in Streams |-> [data |-> "", full |-> FALSE,
                                           writerClosed |-> FALSE, readerClosed |-> FALSE]]
    /\ copier = [s \in Streams |-> [at |-> "none", chunk |-> ""]]
    /\ progressReader = [s \in Streams |-> "none"]
    /\ captured = [s \in Streams |-> ""]
    /\ spinnerProgram = [state |-> "nil", started |-> FALSE, stopped |-> FALSE]
    /\ ticks = 0
    /\ cmdResult = [returned |-> FALSE, err |-> "", stdout |-> "", stderr |-> ""]

-----------------------------------------------------------------------------
(* The plans the specifications start from.                                 *)

\* a JSON object with one member, and a JSON object with one more member
Member(key, value) == Obj([k \in {key} |-> value])
With(object, key, value) == Obj(Put(object.v, key, value))

\* one entry of resource_changes or resource_drift as terraform show -json writes it
ResourceChange(address, actions, before, after) ==
    Obj([f \in {"address", "mode", "type", "name", "change"} |->
           CASE f = "address" -> Str(address)
             [] f = "mode"    -> Str("managed")
             [] f = "type"    -> Str("t")
             [] f = "name"    -> Str(address)
             [] OTHER         ->
                  Obj([g \in {"actions", "before", "after"} |->
                         CASE g = "actions" -> List([i \in 1..Len(actions) |-> Str(actions[i])])
                           [] g = "before"  -> before
                           [] OTHER         -> after])])

\* a plan document with these resource_changes
Plan(resourceChanges) == Member("resource_changes", List(resourceChanges))

\* the shapes an attribute's value takes
ValueShapes ==
    << Null, Str(""), Str("s"), Num(1), Bool(TRUE),
       Obj(EmptyMap), Member("z", Num(1)), Member("z", Num(2)),
       List(<<>>), List(<<Num(1)>>), List(<<Num(2)>>),
       List(<<Member("a", Num(1))>>), List(<<Member("a", Num(2))>>),
       List(<<Num(1), Member("a", Num(1))>>), Str("(known after apply)") >>

\* the action lists of a resource change
ActionLists == << <<"update">>, <<"delete", "create">>, <<"create">>, <<"delete">> >>

\* the tags terraform writes in a change's actions, and the longest action list drawn
ActionTags == {"no-op", "create", "update", "delete", "read"}
MaxActions == 2

\* every list of at most MaxActions tags
TagLists == UNION {[1..n -> ActionTags] : n \in 0..MaxActions}

\* a plan with one resource, t.x, whose k changes from 1 to 2 under these actions
ActionPlan(actions) ==
    Plan(<<ResourceChange("t.x", actions, Member("k", Num(1)), Member("k", Num(2)))>>)

\* the attributes {name: "n"} and, unless shape is 0, {name: "n", k: ValueShapes[shape]}
Attributes(shape) ==
    IF shape = 0 THEN Member("name", Str("n"))
    ELSE With(Member("name", Str("n")), "k", ValueShapes[shape])

\* a plan with one resource, t.x, whose attribute k has these shapes before and after
AttributePlan(actions, beforeShape, afterShape) ==
    Plan(<<ResourceChange("t.x", actions, Attributes(beforeShape), Attributes(afterShape))>>)

\* attributes a..e, with the value of e given
FiveAttributes(e) ==
    Obj([k \in {"a", "b", "c", "d", "e"} |-> IF k = "e" THEN e ELSE Str(k)])

\* a resource change of address whose k changes from 1 to 2
Change(address, actions) ==
    ResourceChange(address, actions, Member("k", Num(1)), Member("k", Num(2)))

\* whole plans: drift entries of unexpected shape, drift without resource_changes,
\* several moved and unmoved resources, a move with no other action, moves and
\* reasons together, a reason the table does not know, a previous_address that is
\* the address
MovedDocuments ==
    << With(Plan(<<Change("t.a", <<"update">>)>>), "resource_drift",
            List(<<Str("entry"), Member("address", Str("t.q"))>>)),
       Member("resource_drift", List(<<Change("t.d", <<"update">>),
                                       Change("t.c", <<"delete">>)>>)),
       Plan(<<With(Change("t.z", <<"update">>), "previous_address", Str("t.y")),
              Change("t.b", <<"update">>),
              With(Change("t.m", <<"delete", "create">>), "previous_address", Str("t.n")),
              Change("t.a", <<"create">>)>>),
       Plan(<<With(Change("t.a", <<"no-op">>), "previous_address", Str("t.old")),
              Change("t.b", <<"update">>)>>),
       Plan(<<With(With(Change("t.a", <<"delete", "create">>), "previous_address", Str("t.old")),
                   "action_reason", Str("replace_because_tainted")),
              With(Change("t.b", <<"update">>), "action_reason", Str("replace_by_request"))>>),
       Plan(<<With(Change("t.a", <<"update">>), "action_reason", Str("custom_reason")),
              With(Change("t.b", <<"update">>), "previous_address", Str("t.b"))>>) >>

\* whole plans: shared addresses, moves, reasons, drift, hidden attributes,
\* entries that are skipped, one-sided changes
PlanDocuments ==
    << Plan(<<ResourceChange("t.a", <<"create">>, Null, Member("k", Num(1))),
              ResourceChange("t.a", <<"create">>, Null, Member("k", Num(2)))>>),
       Plan(<<ResourceChange("t.b", <<"update">>, Member("k", Num(1)), Member("k", Num(2))),
              ResourceChange("t.a", <<"delete">>, Member("k", Num(1)), Null)>>),
       Plan(<<ResourceChange("t.a", <<"update">>, Member("k", Num(1)), Member("k", Num(2))),
              ResourceChange("t.a", <<"delete", "create">>, Member("k", Num(1)),
                             Member("k", Num(2)))>>),
       Plan(<<With(ResourceChange("t.c", <<"update">>, Member("k", Num(1)), Member("k", Num(2))),
                   "previous_address", Str("t.old")),
              ResourceChange("t.d", <<"create">>, Null, Member("k", Num(1)))>>),
       Plan(<<With(ResourceChange("t.a", <<"delete">>, Member("k", Num(1)), Null),
                   "action_reason", Str("delete_because_no_module"))>>),
       With(Plan(<<ResourceChange("t.a", <<"update">>, Member("k", Num(1)), Member("k", Num(2)))>>),
            "resource_drift",
            List(<<ResourceChange("t.d", <<"update">>, Member("k", Str("")), Member("k", Null)),
                   ResourceChange("t.c", <<"delete">>, Member("k", Num(1)), Null)>>)),
       Plan(<<ResourceChange("t.a", <<"update">>, FiveAttributes(Num(1)), FiveAttributes(Num(2)))>>),
       Plan(<<ResourceChange("t.a", <<"delete", "create">>, FiveAttributes(Str("")),
                             FiveAttributes(Null))>>),
       Plan(<<ResourceChange("t.a[0]", <<"create">>, Null,
                             With(FiveAttributes(List(<<Num(1), Member("a", Num(1))>>)),
                                  "m", Member("z", Member("y", Null))))>>),
       Plan(<<ResourceChange("t.a", <<"no-op">>, Member("k", Num(1)), Member("k", Num(1))),
              ResourceChange("t.b", <<"read">>, Null, Member("k", Num(1))),
              ResourceChange("t.c", <<>>, Null, Null)>>),
       Plan(<<ResourceChange("t.a", <<"update">>, Str("s"), Member("k", Num(1))),
              Str("entry")>>),
       Plan(<<>>),
       Obj(EmptyMap),
       Member("resource_changes", Str("none")) >>
    \o MovedDocuments

\* texts that are not plan documents; the last is a plain-text plan
RawTexts ==
    << "", " ", "garbage", "{", " { x", " { } ", "{}x", "[]", "null",
       "  # t.a will be created\n  + resource t a {\n      + k = 1\n    }\n\nPlan: 1 to add" >>

\* the resource change with this after_unknown
WithUnknown(resourceChange, afterUnknown) ==
    With(resourceChange, "change", With(resourceChange.v["change"], "after_unknown", afterUnknown))

\* the after_unknown of a resource with the attributes name and k: none, and k unknown
UnknownShapes == << Null, Member("k", Bool(TRUE)) >>

\* AttributePlan with the after_unknown given
UnknownPlan(actions, beforeShape, afterShape, unknownShape) ==
    Plan(<<WithUnknown(ResourceChange("t.x", actions, Attributes(beforeShape),
                                      Attributes(afterShape)),
                       UnknownShapes[unknownShape])>>)

\* plans whose after_unknown marks id, a key the after side leaves out: a created
\* resource, an updated one that had id, and an updated one that had not
KnownAfterApplyDocuments ==
    << Plan(<<WithUnknown(ResourceChange("t.a", <<"create">>, Null, Member("name", Str("n"))),
                          Member("id", Bool(TRUE)))>>),
       Plan(<<WithUnknown(ResourceChange("t.a", <<"update">>,
                                         With(Member("id", Str("i")), "k", Num(1)),
                                         Member("k", Num(2))),
                          Member("id", Bool(TRUE)))>>),
       Plan(<<WithUnknown(ResourceChange("t.a", <<"update">>, Member("k", Num(1)),
                                         Member("k", Num(2))),
                          With(Member("id", Bool(TRUE)), "k", Bool(FALSE)))>>) >>

\* whole plans for parsePlanJSON: attributes only after_unknown names, inline maps,
\* nested blocks, lists of blocks, replacements, and entries that are skipped
UnknownDocuments ==
    << Plan(<<WithUnknown(ResourceChange("t.a", <<"create">>, Null, Obj(EmptyMap)),
                          Obj([k \in {"arn", "id"} |-> Bool(TRUE)]))>>),
       Plan(<<WithUnknown(ResourceChange("t.a", <<"create">>, Null, Member("name", Str("n"))),
                          Obj([k \in {"id", "blk", "f", "e"} |->
                                 CASE k = "id"  -> Bool(TRUE)
                                   [] k = "blk" -> Member("x", Bool(TRUE))
                                   [] k = "f"   -> Bool(FALSE)
                                   [] OTHER     -> Obj(EmptyMap)]))>>),
       Plan(<<ResourceChange("t.a", <<"update">>,
                             With(Member("labels", Member("a", Str("1"))), "tags", Null),
                             With(Member("labels", Member("a", Str("2"))), "tags",
                                  Member("b", Null)))>>),
       Plan(<<ResourceChange("t.a", <<"update">>,
                             With(Member("m", Member("x", Str(""))), "n", Member("y", Num(1))),
                             With(Member("m", Member("x", Null)), "n", Member("y", Num(2))))>>),
       Plan(<<ResourceChange("t.a", <<"delete", "create">>, FiveAttributes(Str("")),
                             FiveAttributes(Null))>>),
       Plan(<<WithUnknown(ResourceChange("t.a", <<"update">>,
                                         Member("l", List(<<Member("a", Num(1))>>)),
                                         Member("l", List(<<Member("a", Num(2)),
                                                            Member("b", Num(1))>>))),
                          Member("l", List(<<Obj(EmptyMap), Member("c", Bool(TRUE))>>)))>>),
       Plan(<<ResourceChange("t.a", <<"update">>,
                             Member("l", List(<<Member("a", Str("")), Num(1)>>)),
                             Member("l", List(<<Member("a", Null), Num(1)>>)))>>),
       Plan(<<ResourceChange("t.a", <<"no-op">>, Member("k", Num(1)), Member("k", Num(1))),
              ResourceChange("t.b", <<"read">>, Null, Member("k", Num(1))),
              ResourceChange("t.c", <<"delete", "read">>, Member("k", Num(1)), Null),
              ResourceChange("t.d", <<>>, Null, Null)>>),
       Obj(EmptyMap) >>

\* the texts json.Unmarshal is modelled on: those of RawTexts that are empty, begin
\* with a brace or begin with no JSON value
JSONTexts == SubSeq(RawTexts, 1, 7)

\* the plans the navigator is run on
NavigatorInputs ==
    << PlanDocument(
         Plan(<<ResourceChange("t.a", <<"create">>, Null,
                               Obj([k \in {"a", "b"} |-> Str(k)])),
                ResourceChange("t.b", <<"update">>, Member("k", Num(1)), Member("k", Num(2)))>>)),
       RawText("garbage") >>

-----------------------------------------------------------------------------
(* The specifications.                                                      *)

\* the viewer: Show on one of the navigator's plans, then any event
Init ==
    /\ InitModel
    /\ NoCall
    /\ NoCommand
    /\ mapOrder = "asc"
    /\ \E i \in 1..Len(NavigatorInputs) : planOutput = NavigatorInputs[i]

Next ==
    \/ Start
    \/ \E w \in TermWidths, h \in TermHeights : WindowSize(w, h)
    \/ KeyQuit
    \/ KeyHelp
    \/ KeyUp
    \/ KeyDown
    \/ KeyRight
    \/ KeyLeft
    \/ KeySpace
    \/ KeyBackspace
    \/ KeyEnter
    \/ KeyExpandAll
    \/ KeyCollapseAll
    \/ KeyNextRoot
    \/ KeyPreviousRoot
    \/ KeyHome
    \/ KeyEnd
    \/ KeySlash
    \/ KeyOther
    \/ SearchInputEnter
    \/ SearchInputCancel
    \/ SearchInputBackspace
    \/ \E key \in TypedKeys : SearchInputType(key)
    \/ SearchNext
    \/ SearchPrevious
    \/ SearchExit
    \/ MouseWheelUp
    \/ MouseWheelDown
    \/ MouseWheelRight
    \/ MouseWheelLeft

Spec == Init /\ [][Next]_vars

\* the builder alone: New on every plan and text, under every map order
InitBuild ==
    /\ InitModel
    /\ NoCall
    /\ NoCommand
    /\ mapOrder \in MapOrders
    /\ \/ \E a \in 1..Len(ActionLists), b \in 0..Len(ValueShapes), c \in 0..Len(ValueShapes) :
             planOutput = PlanDocument(AttributePlan(ActionLists[a], b, c))
       \/ \E i \in 1..Len(PlanDocuments) : planOutput = PlanDocument(PlanDocuments[i])
       \/ \E i \in 1..Len(RawTexts) : planOutput = RawText(RawTexts[i])
       \/ \E actions \in TagLists : planOutput = PlanDocument(ActionPlan(actions))
       \/ \E i \in 1..Len(KnownAfterApplyDocuments) :
             planOutput = PlanDocument(KnownAfterApplyDocuments[i])

NextBuild == Start

SpecBuild == InitBuild /\ [][NextBuild]_vars

\* parsePlan.go's builder alone: parsePlanJSON on plans with after_unknown and on texts;
\* every map order where a plan has members that only after_unknown names
InitAttributes ==
    /\ InitModel
    /\ NoCall
    /\ NoCommand
    /\ \/ /\ mapOrder = "asc"
          /\ \E a \in 1..Len(ActionLists), b \in 0..Len(ValueShapes),
                c \in 0..Len(ValueShapes), u \in 1..Len(UnknownShapes) :
                planOutput = PlanDocument(UnknownPlan(ActionLists[a], b, c, u))
       \/ /\ mapOrder \in MapOrders
          /\ \E i \in 1..Len(UnknownDocuments) : planOutput = PlanDocument(UnknownDocuments[i])
       \/ /\ mapOrder = "asc"
          /\ \E i \in 1..Len(JSONTexts) : planOutput = RawText(JSONTexts[i])
       \/ /\ mapOrder = "asc"
          /\ \E i \in 1..Len(KnownAfterApplyDocuments) :
                planOutput = PlanDocument(KnownAfterApplyDocuments[i])

NextAttributes == StartJSON

SpecAttributes == InitAttributes /\ [][NextAttributes]_vars

\* the values isEffectivelyEqual is called on: the four empty ones, and a string, a
\* number, a mapping and a list that are not empty
EqualOperands ==
    {Null, Str(""), Obj(EmptyMap), List(<<>>),
     Str("s"), Num(0), Member("z", Num(1)), List(<<Num(1)>>)}

\* isEffectivelyEqual(a, b) for every pair a, b of the operands
CallIsEffectivelyEqual ==
    /\ verdicts = <<>>
    /\ verdicts' = [i \in 1..Len(operands) |->
                      [j \in 1..Len(operands) |->
                          isEffectivelyEqual(operands[i], operands[j])]]
    /\ UNCHANGED <<planOutput, mapOrder, pc, forestVars, cursor, windowTop, windowHeight,
                   screenVars, searchVars, operands, commandVars>>

\* isEffectivelyEqual alone, on every triple of operands
InitEqual ==
    /\ InitModel
    /\ NoCommand
    /\ mapOrder = "asc"
    /\ planOutput = RawText("")
    /\ operands \in [1..3 -> EqualOperands]
    /\ verdicts = <<>>

NextEqual == CallIsEffectivelyEqual

SpecEqual == InitEqual /\ [][NextEqual]_vars

-----------------------------------------------------------------------------
(* RunCommand (internal/terraform/helpers.go) with its goroutines, the       *)
(* terraform process and the spinner program.                                *)

\* everything RunCommand does not touch
viewerVars ==
    <<planOutput, mapOrder, pc, forestVars, cursor, windowTop, windowHeight, screenVars,
      searchVars, callVars>>

\* the most messages the status goroutine sends
MaxTicks == 1

\* what the terraform process writes to each stream, and whether it exits with an error
Scripts ==
    {[stdout |-> o, stderr |-> e, fails |-> f] :
        o \in {"", "o", "op"}, e \in {"", "e"}, f \in BOOLEAN}

\* RunCommand up to the goroutines: the context assertion, the two pipes of the
\* command, the two io.Pipe pairs, the two progress goroutines, the two copiers
Enter ==
    /\ runPc = "entry"
    /\ \E outcome \in {"ok", "noContext", "noPipe"} :
          IF outcome = "ok"
          THEN /\ copier' = [s \in Streams |-> [at |-> "read", chunk |-> ""]]
               /\ progressReader' = [s \in Streams |-> "scanning"]
               /\ runPc' = "spinner"
               /\ UNCHANGED cmdResult
          ELSE /\ cmdResult' = [cmdResult EXCEPT
                                  !.returned = TRUE,
                                  !.err = IF outcome = "noContext"
                                          THEN "context type assertion failed"
                                          ELSE "error creating stdout pipe"]
               /\ runPc' = "returned"
               /\ UNCHANGED <<copier, progressReader>>
    /\ UNCHANGED <<viewerVars, redirectOutput, script, process, cmdPipe, progressPipe,
                   captured, spinnerProgram, ticks>>

\* s := spinner.New(spinnerMsg); s.Start()
SpinnerStart ==
    /\ runPc = "spinner"
    /\ spinnerProgram' = [spinnerProgram EXCEPT !.state = "running", !.started = TRUE]
    /\ runPc' = "start"
    /\ UNCHANGED <<viewerVars, redirectOutput, script, process, cmdPipe, progressPipe,
                   copier, progressReader, captured, ticks, cmdResult>>

\* err = cmd.Start(): the process runs, or Start fails and closes the pipes
CmdStart ==
    /\ runPc = "start"
    /\ \E ok \in BOOLEAN :
          IF ok
          THEN /\ process' = [state |-> "running", stdout |-> script.stdout,
                              stderr |-> script.stderr]
               /\ runPc' = "wait"
               /\ UNCHANGED cmdPipe
          ELSE /\ cmdPipe' = [s \in Streams |-> [cmdPipe[s] EXCEPT !.closed = TRUE]]
               /\ runPc' = "stopUnstarted"
               /\ UNCHANGED process
    /\ UNCHANGED <<viewerVars, redirectOutput, script, progressPipe, copier, progressReader,
                   captured, spinnerProgram, ticks, cmdResult>>

\* the status goroutine, case <-ticker.C: s.UpdateMessage
StatusTick ==
    /\ runPc = "wait"
    /\ ticks < MaxTicks
    /\ spinnerProgram.state = "running"
    /\ ticks' = ticks + 1
    /\ UNCHANGED <<viewerVars, redirectOutput, script, runPc, process, cmdPipe, progressPipe,
                   copier, progressReader, captured, spinnerProgram, cmdResult>>

\* the terraform process writes one byte to a stream
ProcessWrite(s) ==
    /\ process.state = "running"
    /\ Len(process[s]) > 0
    /\ cmdPipe' = [cmdPipe EXCEPT ![s].data = @ \o SubSeq(process[s], 1, 1)]
    /\ process' = [process EXCEPT ![s] = SubSeq(@, 2, Len(@))]
    /\ UNCHANGED <<viewerVars, redirectOutput, script, runPc, progressPipe, copier,
                   progressReader, captured, spinnerProgram, ticks, cmdResult>>

\* the terraform process exits, having written all it writes
ProcessExit ==
    /\ process.state = "running"
    /\ Len(process.stdout) = 0 /\ Len(process.stderr) = 0
    /\ process' = [process EXCEPT !.state = "exited"]
    /\ UNCHANGED <<viewerVars, redirectOutput, script, runPc, cmdPipe, progressPipe, copier,
                   progressReader, captured, spinnerProgram, ticks, cmdResult>>

\* cmdErr := cmd.Wait(); statusCancel(): Wait returns once the process has exited,
\* and closes the read ends of stdoutPipe and stderrPipe
CmdWait ==
    /\ runPc = "wait"
    /\ process.state = "exited"
    /\ cmdPipe' = [s \in Streams |-> [cmdPipe[s] EXCEPT !.closed = TRUE]]
    /\ runPc' = "wgWait"
    /\ UNCHANGED <<viewerVars, redirectOutput, script, process, progressPipe, copier,
                   progressReader, captured, spinnerProgram, ticks, cmdResult>>

\* io.Copy's read of the command's pipe: an error on a closed read end, the bytes
\* in the pipe, or the end of the stream; on either end the deferred
\* stdoutWriter.Close() and wg.Done()
CopierRead(s) ==
    /\ copier[s].at = "read"
    /\ IF cmdPipe[s].closed \/ (Len(cmdPipe[s].data) = 0 /\ process.state = "exited")
       THEN /\ copier' = [copier EXCEPT ![s].at = "done"]
            /\ progressPipe' = [progressPipe EXCEPT ![s].writerClosed = TRUE]
            /\ UNCHANGED cmdPipe
       ELSE /\ Len(cmdPipe[s].data) > 0
            /\ copier' = [copier EXCEPT ![s] = [at |-> "write", chunk |-> cmdPipe[s].data]]
            /\ cmdPipe' = [cmdPipe EXCEPT ![s].data = ""]
            /\ UNCHANGED progressPipe
    /\ UNCHANGED <<viewerVars, redirectOutput, script, runPc, process, progressReader,
                   captured, spinnerProgram, ticks, cmdResult>>

\* the MultiWriter's write to stdoutWriter, which returns when the reader has taken
\* the bytes, or at once with an error when the reader is closed
CopierWrite(s) ==
    /\ copier[s].at = "write"
    /\ IF progressPipe[s].readerClosed
       THEN /\ copier' = [copier EXCEPT ![s] = [at |-> "done", chunk |-> ""]]
            /\ progressPipe' = [progressPipe EXCEPT ![s].writerClosed = TRUE]
       ELSE /\ copier' = [copier EXCEPT ![s].at = "taken"]
            /\ progressPipe' = [progressPipe EXCEPT ![s].data = copier[s].chunk,
                                                    ![s].full = TRUE]
    /\ UNCHANGED <<viewerVars, redirectOutput, script, runPc, process, cmdPipe,
                   progressReader, captured, spinnerProgram, ticks, cmdResult>>

\* the MultiWriter's write to the buffer, after the write to stdoutWriter returned
CopierCapture(s) ==
    /\ copier[s].at = "taken"
    /\ ~progressPipe[s].full
    /\ captured' = [captured EXCEPT ![s] = @ \o copier[s].chunk]
    /\ copier' = [copier EXCEPT ![s] = [at |-> "read", chunk |-> ""]]
    /\ UNCHANGED <<viewerVars, redirectOutput, script, runPc, process, cmdPipe, progressPipe,
                   progressReader, spinnerProgram, ticks, cmdResult>>

\* processOutputForProgress: the scanner's read of stdoutReader, which takes the
\* bytes written or ends with the stream
ProgressScan(s) ==
    /\ progressReader[s] = "scanning"
    /\ IF progressPipe[s].full
       THEN /\ progressPipe' = [progressPipe EXCEPT ![s].data = "", ![s].full = FALSE]
            /\ UNCHANGED progressReader
       ELSE /\ progressPipe[s].writerClosed \/ progressPipe[s].readerClosed
            /\ progressReader' = [progressReader EXCEPT ![s] = "done"]
            /\ UNCHANGED progressPipe
    /\ UNCHANGED <<viewerVars, redirectOutput, script, runPc, process, cmdPipe, copier,
                   captured, spinnerProgram, ticks, cmdResult>>

\* wg.Wait(); stdoutReader.Close(); stderrReader.Close()
WgWait ==
    /\ runPc = "wgWait"
    /\ \A s \in Streams : copier[s].at = "done"
    /\ progressPipe' = [s \in Streams |-> [progressPipe[s] EXCEPT !.readerClosed = TRUE]]
    /\ runPc' = "progressWait"
    /\ UNCHANGED <<viewerVars, redirectOutput, script, process, cmdPipe, copier,
                   progressReader, captured, spinnerProgram, ticks, cmdResult>>

\* progressWg.Wait()
ProgressWait ==
    /\ runPc = "progressWait"
    /\ \A s \in Streams : progressReader[s] = "done"
    /\ runPc' = "stop"
    /\ UNCHANGED <<viewerVars, redirectOutput, script, process, cmdPipe, progressPipe,
                   copier, progressReader, captured, spinnerProgram, ticks, cmdResult>>

\* Spinner.Stop up to its select: s.model.program.Send(quitMsg{})
StopSend ==
    /\ runPc \in {"stop", "stopUnstarted"}
    /\ spinnerProgram.state = "running"
    /\ spinnerProgram' = [spinnerProgram EXCEPT !.state = "quitting", !.stopped = TRUE]
    /\ runPc' = IF runPc = "stop" THEN "stopping" ELSE "stoppingUnstarted"
    /\ UNCHANGED <<viewerVars, redirectOutput, script, process, cmdPipe, progressPipe,
                   copier, progressReader, captured, ticks, cmdResult>>

\* the spinner program's goroutine: p.Run() returns on the quit message
SpinnerQuit ==
    /\ spinnerProgram.state = "quitting"
    /\ spinnerProgram' = [spinnerProgram EXCEPT !.state = "finished"]
    /\ UNCHANGED <<viewerVars, redirectOutput, script, runPc, process, cmdPipe, progressPipe,
                   copier, progressReader, captured, ticks, cmdResult>>

\* the error RunCommand returns after the spinner: the start error, or cmdErr with
\* stdout.String() and stderr.String() unless the output is redirected, or nil
returnedError ==
    IF runPc = "stoppingUnstarted"
    THEN [returned |-> TRUE, err |-> "error starting terraform command",
          stdout |-> "", stderr |-> ""]
    ELSE IF script.fails
    THEN IF ~redirectOutput
         THEN [returned |-> TRUE, err |-> "exit status 1",
               stdout |-> captured.stdout, stderr |-> captured.stderr]
         ELSE [returned |-> TRUE, err |-> "exit status 1", stdout |-> "", stderr |-> ""]
    ELSE [returned |-> TRUE, err |-> "", stdout |-> "", stderr |-> ""]

\* Spinner.Stop's select, on the cleanup or on the timeout, and RunCommand's return
StopWait ==
    /\ runPc \in {"stopping", "stoppingUnstarted"}
    /\ cmdResult' = returnedError
    /\ runPc' = "returned"
    /\ UNCHANGED <<viewerVars, redirectOutput, script, process, cmdPipe, progressPipe,
                   copier, progressReader, captured, spinnerProgram, ticks>>

\* RunCommand on every script, with and without redirectOutput
InitCommand ==
    /\ InitModel
    /\ NoCall
    /\ mapOrder = "asc"
    /\ planOutput = RawText("")
    /\ redirectOutput \in BOOLEAN
    /\ script \in Scripts
    /\ runPc = "entry"
    /\ process = [state |-> "none", stdout |-> "", stderr |-> ""]
    /\ cmdPipe = [s \in Streams |-> [data |-> "", closed |-> FALSE]]
    /\ progressPipe = [s \in Streams |-> [data |-> "", full |-> FALSE,
                                          writerClosed |-> FALSE, readerClosed |-> FALSE]]
    /\ copier = [s \in Streams |-> [at |-> "none", chunk |-> ""]]
    /\ progressReader = [s \in Streams |-> "none"]
    /\ captured = [s \in Streams |-> ""]
    /\ spinnerProgram = [state |-> "nil", started |-> FALSE, stopped |-> FALSE]
    /\ ticks = 0
    /\ cmdResult = [returned |-> FALSE, err |-> "", stdout |-> "", stderr |-> ""]

NextCommand ==
    \/ Enter
    \/ SpinnerStart
    \/ CmdStart
    \/ StatusTick
    \/ \E s \in Streams : ProcessWrite(s)
    \/ ProcessExit
    \/ CmdWait
    \/ \E s \in Streams : CopierRead(s)
    \/ \E s \in Streams : CopierWrite(s)
    \/ \E s \in Streams : CopierCapture(s)
    \/ \E s \in Streams : ProgressScan(s)
    \/ WgWait
    \/ ProgressWait
    \/ StopSend
    \/ SpinnerQuit
    \/ StopWait

SpecCommand == InitCommand /\ [][NextCommand]_vars

-----------------------------------------------------------------------------
(* Properties of the builders.                                              *)

\* every node under the nodes ns, whatever its expansion, in preorder
RECURSIVE subtree(_, _)
subtree(h, ns) ==
    IF ns = <<>> THEN <<>>
    ELSE <<Head(ns)>> \o subtree(h, h[Head(ns)].Children) \o subtree(h, Tail(ns))

\* the forest as the list of its nodes in preorder: text, depth, kind, change type and
\* the number of ancestors
RECURSIVE outline(_, _, _)
outline(h, ns, level) ==
    IF ns = <<>> THEN <<>>
    ELSE <<[Text |-> h[Head(ns)].Text, Depth |-> h[Head(ns)].Depth, Type |-> h[Head(ns)].Type,
            ChangeType |-> h[Head(ns)].ChangeType, level |-> level]>>
         \o outline(h, h[Head(ns)].Children, level + 1)
         \o outline(h, Tail(ns), level)

\* the input is JSON that decodes: parsePlan hands it to parseTerraformPlanJSON and
\* json.Unmarshal returns no error
DecodablePlan ==
    /\ Len(TrimSpace(planOutput.text)) > 0
    /\ CharAt(TrimSpace(planOutput.text), 1) = "{"
    /\ Unmarshal(planOutput).err = ""

\* the plan has exactly one entry in resource_changes, a resource with a change
HasSingleChange ==
    /\ IsMap(planOutput.doc)
    /\ IsList(Get(planOutput.doc.v, "resource_changes"))
    /\ Len(Get(planOutput.doc.v, "resource_changes").v) = 1
    /\ IsMap(Get(planOutput.doc.v, "resource_changes").v[1])
    /\ IsMap(Get(Get(planOutput.doc.v, "resource_changes").v[1].v, "change"))

\* that entry's change, its change type, and its two sides
singleChange == Get(Get(planOutput.doc.v, "resource_changes").v[1].v, "change").v
singleChangeType ==
    mapActionsToChangeType(actionStrings(IF IsList(Get(singleChange, "actions"))
                                         THEN Get(singleChange, "actions").v ELSE <<>>))
singleBefore == Get(singleChange, "before")
singleAfter == Get(singleChange, "after")

\* the resource has both sides and is diffed key by key
DiffedSingleChange ==
    /\ HasSingleChange
    /\ singleChangeType \in {"update", "replace"}
    /\ IsMap(singleBefore)
    /\ IsMap(singleAfter)

\* the children of the planned resource's block: the block is the first child of the
\* root header that is a resource and not drifted
plannedBlockChildren ==
    LET roots == SelectSeq(nodes, LAMBDA n : heap[n].Type = "resource" /\ ~heap[n].IsDrifted)
    IN  heap[heap[roots[1]].Children[1]].Children

\* the text is a node for this key: an attribute line or a block opener
namesKey(text, key) ==
    \E prefix \in {"~ ", "+ ", "- ", "  "} : HasPrefix(text, prefix \o key \o " ")

\* the keys of the single change that are the empty string on one side and null on the other
emptyNullKeys ==
    {k \in DOMAIN singleBefore.v \cap DOMAIN singleAfter.v :
        \/ IsStr(singleBefore.v[k]) /\ singleBefore.v[k].v = "" /\ IsNil(singleAfter.v[k])
        \/ IsStr(singleAfter.v[k]) /\ singleAfter.v[k].v = "" /\ IsNil(singleBefore.v[k])}

\* the keys of the single change present on both sides with effectively equal values
effectivelyEqualKeys ==
    {k \in DOMAIN singleBefore.v \cap DOMAIN singleAfter.v :
        isEffectivelyEqual(singleBefore.v[k], singleAfter.v[k])}

\* the number of planned root headers whose change type is one of types
headerCount(types) ==
    Cardinality({i \in 1..Len(nodes) :
                    /\ heap[nodes[i]].Type = "resource"
                    /\ ~heap[nodes[i]].IsDrifted
                    /\ heap[nodes[i]].ChangeType \in types})

\* among the nodes of cs that share a depth, every block is followed at once by a
\* closing brace and every closing brace follows a block
bracesMatch(h, cs) ==
    \A d \in {h[cs[i]].Depth : i \in 1..Len(cs)} :
        LET level == SelectSeq(cs, LAMBDA n : h[n].Depth = d)
        IN  \A i \in 1..Len(level) :
                /\ h[level[i]].Type = "block"
                     => i < Len(level) /\ h[level[i + 1]].Type = "closing_brace"
                /\ h[level[i]].Type = "closing_brace"
                     => i > 1 /\ h[level[i - 1]].Type = "block"

\* C5: building from one input gives one forest (root order, children order, text,
\* depth, kind and change type of every node), whatever order the run iterates Go
\* maps in: the forest parsePlanJSON returns equals the one it returns when every
\* map is iterated in ascending key order.
C5_SameForestEveryRun ==
    pc = "built" =>
        LET reference == parsePlanJSON(planOutput, "asc")
        IN  outline(heap, nodes, 0) = outline(reference.h, reference.nodes, 0)

\* C6: the three numbers of the summary line equal the numbers of planned root
\* headers emitted: add = headers create or replace, change = headers update,
\* destroy = headers destroy or replace.
C6_SummaryCountsHeaders ==
    pc = "running" /\ DecodablePlan =>
        \A i \in 1..Len(nodes) :
            heap[nodes[i]].Type = "summary" =>
                HasPrefix(heap[nodes[i]].Text,
                          "Plan: " \o Itoa(headerCount({"create", "replace"})) \o " to add, "
                            \o Itoa(headerCount({"update"})) \o " to change, "
                            \o Itoa(headerCount({"destroy", "replace"})) \o " to destroy")

\* C7: in a resource that is updated or replaced, a key that is "" on one side and
\* null on the other is named by no node under the resource's block, and the block
\* carries the comment that tallies it once with the other effectively equal keys.
C7_EmptyNullHidden ==
    pc = "running" /\ DiffedSingleChange /\ emptyNullKeys # {} =>
        /\ \A k \in emptyNullKeys : \A i \in 1..Len(plannedBlockChildren) :
               ~namesKey(heap[plannedBlockChildren[i]].Text, k)
        /\ \E i \in 1..Len(plannedBlockChildren) :
               /\ heap[plannedBlockChildren[i]].Type = "comment"
               /\ heap[plannedBlockChildren[i]].Text
                    \in {"# (" \o Itoa(Cardinality(effectivelyEqualKeys)) \o suffix :
                           suffix \in {" unchanged attributes hidden)",
                                       " unchanged attribute hidden)"}}

\* C8: in a resource that is updated or replaced, every key present on both sides
\* whose values are not effectively equal is named by at least one node under the
\* resource's block, whatever the shapes of the two values.
C8_ChangedKeyVisible ==
    pc = "running" /\ DiffedSingleChange =>
        \A k \in (DOMAIN singleBefore.v \cap DOMAIN singleAfter.v) \ effectivelyEqualKeys :
            \E i \in 1..Len(plannedBlockChildren) :
                namesKey(heap[plannedBlockChildren[i]].Text, k)

\* C9: an input that does not decode as a JSON plan document, whether or not it
\* begins with a brace, is built into one root node of kind error that carries the
\* decoder's message, and no other node.
C9_UndecodableGivesErrorNode ==
    pc # "input" /\ Unmarshal(planOutput).err # "" =>
        /\ pc = "running"
        /\ Len(nodes) = 1
        /\ Len(subtree(heap, nodes)) = 1
        /\ heap[nodes[1]].Type = "error"
        /\ Contains(heap[nodes[1]].Text, Unmarshal(planOutput).err)

\* C10: in the forest of a decodable plan every block has exactly one closing brace
\* of its depth, the next node of that depth under the same owner, and every
\* closing brace closes such a block; so the two kinds are equal in number.
C10_BracesMatchBlocks ==
    pc = "running" /\ DecodablePlan =>
        /\ bracesMatch(heap, nodes)
        /\ \A p \in 1..Len(heap) : bracesMatch(heap, heap[p].Children)
        /\ Cardinality({p \in 1..Len(heap) : heap[p].Type = "block"})
             = Cardinality({p \in 1..Len(heap) : heap[p].Type = "closing_brace"})

\* C10's case: a block nested in a resource's block, closed by the brace after it
C10_NestedBlockBuilt ==
    /\ pc = "running"
    /\ DecodablePlan
    /\ \E p \in 1..Len(heap) : \E i \in 1..Len(heap[p].Children) :
           /\ heap[heap[p].Children[i]].Type = "block"
           /\ heap[heap[p].Children[i]].Depth >= 2
           /\ Len(heap[heap[p].Children[i]].Children) > 0
           /\ i < Len(heap[p].Children)
           /\ heap[heap[p].Children[i + 1]].Type = "closing_brace"

-----------------------------------------------------------------------------
(* Properties of the navigator.                                             *)

\* the events that move the cursor or toggle a node
CursorEvent ==
    \/ KeyUp \/ KeyDown \/ KeySpace \/ KeyEnter \/ KeyBackspace
    \/ KeyExpandAll \/ KeyCollapseAll \/ KeyNextRoot \/ KeyPreviousRoot
    \/ KeyHome \/ KeyEnd \/ SearchNext \/ SearchPrevious
    \/ SearchInputEnter /\ Len(searchString) > 0 /\ Len(searchResults') > 0
    \/ MouseWheelUp \/ MouseWheelDown

\* the proper descendants of node
descendants(h, node) == subtree(h, h[node].Children)

\* the node under the cursor
cursorNode == visibleNodes[cursor + 1]

\* C1: after any cursor move or toggle the cursor is inside the window,
\* windowTop <= cursor < windowTop + windowHeight, from every reachable state.
C1_CursorInsideWindow ==
    [][CursorEvent => (windowTop' <= cursor' /\ cursor' < windowTop' + windowHeight')]_vars

\* C2: when some node of the forest contains the non-empty search string, confirming
\* the search with enter gives a non-empty searchResults and puts the cursor on a
\* visible node whose text contains the string, whatever was expanded before.
C2_SearchFindsMatch ==
    [][(/\ SearchInputEnter
        /\ Len(searchString) > 0
        /\ \E i \in 1..Len(subtree(heap, nodes)) :
               Contains(heap[subtree(heap, nodes)[i]].Text, searchString))
       => (/\ Len(searchResults') > 0
           /\ cursor' >= 0
           /\ cursor' < Len(getVisibleNodes(heap', nodes'))
           /\ Contains(heap'[getVisibleNodes(heap', nodes')[cursor' + 1]].Text,
                       searchString))]_vars

\* C2's case: a search was confirmed, it has matches, and the cursor is on the first
C2_SearchConfirmed ==
    /\ SearchActive
    /\ Len(searchString) > 0
    /\ Len(searchResults) > 0
    /\ searchIndex = 0
    /\ cursor = searchResults[1]
    /\ Contains(heap[cursorNode].Text, searchString)

\* C3: enter on an expanded, toggleable node with children collapses every
\* descendant and leaves the node itself expanded, its direct children visible.
C3_EnterKeepsNodeExpanded ==
    [][(/\ KeyEnter
        /\ cursor >= 0 /\ cursor < Len(visibleNodes)
        /\ heap[cursorNode].Expanded
        /\ heap[cursorNode].Toggleable
        /\ Len(heap[cursorNode].Children) > 0)
       => (/\ heap'[cursorNode].Expanded
           /\ \A i \in 1..Len(descendants(heap, cursorNode)) :
                  ~heap'[descendants(heap, cursorNode)[i]].Expanded
           /\ \A i \in 1..Len(heap[cursorNode].Children) :
                  \E j \in 1..Len(getVisibleNodes(heap', nodes')) :
                      getVisibleNodes(heap', nodes')[j] = heap[cursorNode].Children[i])]_vars

\* C4: key A leaves the expanded flag of every root-level node as it was.
C4_CollapseAllKeepsRoots ==
    [][KeyCollapseAll
       => \A i \in 1..Len(nodes) : heap'[nodes[i]].Expanded = heap[nodes[i]].Expanded]_vars

-----------------------------------------------------------------------------
(* Properties of the classification and the order of the roots.             *)

\* the action tags of the single change, in order
singleActions ==
    actionStrings(IF IsList(Get(singleChange, "actions"))
                  THEN Get(singleChange, "actions").v ELSE <<>>)

\* the set of the tags of a list
tagsOf(actions) == {actions[i] : i \in 1..Len(actions)}

\* the root headers of the planned resources, in root order
plannedRoots == SelectSeq(nodes, LAMBDA n : heap[n].Type = "resource" /\ ~heap[n].IsDrifted)

\* the change type as stated: by the only tag, else the tags joined
statedChangeType(actions) ==
    IF {"create", "delete"} \subseteq tagsOf(actions) THEN "replace"
    ELSE IF tagsOf(actions) = {"create"} THEN "create"
    ELSE IF tagsOf(actions) = {"delete"} THEN "destroy"
    ELSE IF tagsOf(actions) = {"update"} THEN "update"
    ELSE Join(actions, "/")

\* the change type by the first tag present among create, delete, update
presentChangeType(actions) ==
    IF {"create", "delete"} \subseteq tagsOf(actions) THEN "replace"
    ELSE IF "create" \in tagsOf(actions) THEN "create"
    ELSE IF "delete" \in tagsOf(actions) THEN "destroy"
    ELSE IF "update" \in tagsOf(actions) THEN "update"
    ELSE Join(actions, "/")

\* C11 as stated: the header of a resource carries replace for create with delete,
\* create, destroy or update when that is the only tag, else the tags joined; an
\* entry whose only tag is no-op gives no node.
C11_ChangeTypeByOnlyTag ==
    /\ pc = "running" /\ HasSingleChange
    /\ singleActions # <<>> /\ tagsOf(singleActions) \subseteq ActionTags
    =>  IF singleActions = <<"no-op">> THEN Len(plannedRoots) = 0
        ELSE /\ Len(plannedRoots) = 1
             /\ heap[plannedRoots[1]].ChangeType = statedChangeType(singleActions)

\* C11: the header of a resource carries replace when create and delete are both
\* present, else create when create is present, else destroy when delete is, else
\* update when update is, else the tags joined with "/"; an entry with no tag or
\* with the single tag no-op gives no node.
C11_ChangeTypeByPresence ==
    pc = "running" /\ HasSingleChange /\ tagsOf(singleActions) \subseteq ActionTags =>
        IF singleActions = <<>> \/ singleActions = <<"no-op">> THEN Len(plannedRoots) = 0
        ELSE /\ Len(plannedRoots) = 1
             /\ heap[plannedRoots[1]].ChangeType = presentChangeType(singleActions)

\* C11's case: a list of two different tags, one of them create, built as create
C11_MixedTagsBuilt ==
    /\ pc = "running"
    /\ HasSingleChange
    /\ singleActions = <<"update", "create">>
    /\ Len(plannedRoots) = 1
    /\ heap[plannedRoots[1]].ChangeType = "create"

\* the address in a root header "# <address> ...": the text between "# " and the next space
headerAddress(text) == SubSeq(text, 3, 2 + Index(SubSeq(text, 3, Len(text)), " "))

\* the class of a root node: drifted, separator, planned, moved, summary, or its kind
rootClass(node) ==
    IF node.Type = "resource"
    THEN IF node.IsDrifted THEN "drifted"
         ELSE IF Contains(node.Text, " (moved from ") THEN "moved" ELSE "planned"
    ELSE node.Type

\* the place of a class in the order of the roots
classRank(class) ==
    CASE class = "drifted"   -> 1
      [] class = "separator" -> 2
      [] class = "planned"   -> 3
      [] class = "moved"     -> 4
      [] class = "summary"   -> 5
      [] class = "info"      -> 5
      [] OTHER               -> 0

\* the number of roots of a class
classCount(class) ==
    Cardinality({i \in 1..Len(nodes) : rootClass(heap[nodes[i]]) = class})

\* the roots come class by class in the order drifted, separator, planned, moved and
\* last, and those of one class that are resources ascend by address
rootsInOrder ==
    \A i \in 1..(Len(nodes) - 1) :
        /\ classRank(rootClass(heap[nodes[i]])) <= classRank(rootClass(heap[nodes[i + 1]]))
        /\ rootClass(heap[nodes[i]]) = rootClass(heap[nodes[i + 1]])
             => /\ heap[nodes[i]].Type = "resource"
                /\ StrLess(headerAddress(heap[nodes[i]].Text),
                           headerAddress(heap[nodes[i + 1]].Text))

\* the plan's resource_drift is a list with at least one entry
hasDriftList ==
    /\ IsMap(planOutput.doc)
    /\ IsList(Get(planOutput.doc.v, "resource_drift"))
    /\ Len(Get(planOutput.doc.v, "resource_drift").v) > 0

\* the plan's resource_changes is a list
hasChangeList ==
    IsMap(planOutput.doc) /\ IsList(Get(planOutput.doc.v, "resource_changes"))

\* C12 as stated: the roots of every decodable plan are the drifted roots ascending
\* by address, one separator exactly when there is a drifted root, the unmoved
\* planned roots ascending, the moved planned roots ascending, and one summary
\* node, the last root.
C12_RootOrderEveryPlan ==
    pc = "running" /\ DecodablePlan =>
        /\ rootsInOrder
        /\ \A i \in 1..Len(nodes) : classRank(rootClass(heap[nodes[i]])) > 0
        /\ classCount("separator") = (IF classCount("drifted") > 0 THEN 1 ELSE 0)
        /\ classCount("summary") = 1
        /\ heap[nodes[Len(nodes)]].Type = "summary"

\* C12: the roots of every decodable plan are the drifted roots ascending by
\* address, one separator exactly when resource_drift is a non-empty list, and
\* then, when resource_changes is a list, the unmoved planned roots ascending, the
\* moved planned roots ascending and one summary node, the last root; when it is
\* not a list, one info node, the last root, and no planned root and no summary.
C12_RootOrder ==
    pc = "running" /\ DecodablePlan =>
        /\ rootsInOrder
        /\ \A i \in 1..Len(nodes) : classRank(rootClass(heap[nodes[i]])) > 0
        /\ classCount("separator") = (IF hasDriftList THEN 1 ELSE 0)
        /\ classCount("drifted") > 0 => hasDriftList
        /\ classCount("summary") = (IF hasChangeList THEN 1 ELSE 0)
        /\ classCount("info") = (IF hasChangeList THEN 0 ELSE 1)
        /\ ~hasChangeList => classCount("planned") + classCount("moved") = 0
        /\ heap[nodes[Len(nodes)]].Type = (IF hasChangeList THEN "summary" ELSE "info")

\* C12's case: drifted roots, a separator, unmoved and moved roots and the summary
\* in one forest, two moved roots among them
C12_AllClassesBuilt ==
    /\ pc = "running"
    /\ DecodablePlan
    /\ \/ classCount("drifted") > 1 /\ classCount("planned") > 0
       \/ classCount("moved") > 1 /\ classCount("planned") > 1

\* the entries of the plan's resource_changes, <<>> when it is not a list
changeEntries ==
    IF hasChangeList THEN Get(planOutput.doc.v, "resource_changes").v ELSE <<>>

\* an entry with an address, a change and a previous_address that is set and is
\* not the address
movedEntry(entry) ==
    /\ IsMap(entry)
    /\ IsStr(Get(entry.v, "address"))
    /\ IsMap(Get(entry.v, "change"))
    /\ IsStr(Get(entry.v, "previous_address"))
    /\ Get(entry.v, "previous_address").v # ""
    /\ Get(entry.v, "previous_address").v # Get(entry.v, "address").v

\* the action tags of an entry that has a change
entryActions(entry) ==
    actionStrings(IF IsList(Get(Get(entry.v, "change").v, "actions"))
                  THEN Get(Get(entry.v, "change").v, "actions").v ELSE <<>>)

\* the root at index i is the header of entry and says where it moved from
movedRootOf(entry, i) ==
    /\ heap[nodes[i]].Type = "resource"
    /\ ~heap[nodes[i]].IsDrifted
    /\ headerAddress(heap[nodes[i]].Text) = Get(entry.v, "address").v
    /\ Contains(heap[nodes[i]].Text,
                "(moved from " \o Get(entry.v, "previous_address").v \o ")")

\* C13: every resource_changes entry whose previous_address is set and differs
\* from its address has a root whose text contains "(moved from <previous_address>)"
\* and that comes after every unmoved planned root, whatever its action tags are.
C13_MovedEntryRendered ==
    pc = "running" /\ DecodablePlan =>
        \A e \in 1..Len(changeEntries) :
            movedEntry(changeEntries[e]) =>
                \E i \in 1..Len(nodes) :
                    /\ movedRootOf(changeEntries[e], i)
                    /\ \A j \in 1..Len(nodes) :
                           rootClass(heap[nodes[j]]) = "planned" => j < i

\* the same for the entries whose action list is not empty and is not the single
\* tag no-op
C13_MovedEntryWithActionRendered ==
    pc = "running" /\ DecodablePlan =>
        \A e \in 1..Len(changeEntries) :
            /\ movedEntry(changeEntries[e])
            /\ entryActions(changeEntries[e]) # <<>>
            /\ entryActions(changeEntries[e]) # <<"no-op">>
            => \E i \in 1..Len(nodes) :
                    /\ movedRootOf(changeEntries[e], i)
                    /\ \A j \in 1..Len(nodes) :
                           rootClass(heap[nodes[j]]) = "planned" => j < i

(***************************************************************************)
(* Properties of the modes, of expand-all and of the window.               *)
(***************************************************************************)

\* C14 as stated: in every mode a quit key press ends the session. q, b and ctrl+c
\* are KeyQuit in Normal mode, ctrl+c is SearchInputCancel at the search prompt,
\* and q and ctrl+c are SearchExit among the search results.
C14_QuitKeyQuitsEveryMode ==
    [][(KeyQuit \/ SearchInputCancel \/ SearchExit) => quitting']_vars

\* C14: a quit key press ends the session in Normal mode only: quitting becomes
\* true by no step that starts at the search prompt or among the search results,
\* where ctrl+c and q (among the results) lead back to Normal mode instead.
C14_QuitOnlyFromNormal ==
    [][/\ (searchMode \/ inputSearchModel) => ~quitting'
       /\ (SearchInputCancel \/ SearchExit)
            => ~quitting' /\ ~searchMode' /\ ~inputSearchModel']_vars

\* C14's case: a session that searched and found something, left the search, and
\* quit
C14_QuitAfterSearch ==
    /\ pc = "running"
    /\ quitting
    /\ ~searchMode /\ ~inputSearchModel
    /\ Len(searchResults) > 0

\* the mode Update dispatches a key press on
modeOf(search, input) ==
    IF ~search /\ ~input THEN "Normal" ELSE IF input THEN "SearchInput" ELSE "SearchActive"

mode == modeOf(searchMode, inputSearchModel)

\* C15: the mode changes only from Normal to SearchInput on "/", from SearchInput
\* to SearchActive on enter with a query, from SearchInput to Normal on esc, ctrl+c
\* or enter without a query, and from SearchActive to Normal on a key other than n
\* and N; n and N keep SearchActive, every other key at the search prompt keeps
\* SearchInput, and resize and mouse events keep the mode.
C15_ModeTransitions ==
    [][/\ mode' # mode =>
            \/ mode = "Normal" /\ mode' = "SearchInput" /\ KeySlash
            \/ /\ mode = "SearchInput" /\ mode' = "SearchActive"
               /\ SearchInputEnter /\ Len(searchString) > 0
            \/ /\ mode = "SearchInput" /\ mode' = "Normal"
               /\ SearchInputCancel \/ (SearchInputEnter /\ Len(searchString) = 0)
            \/ mode = "SearchActive" /\ mode' = "Normal" /\ SearchExit
       /\ KeySlash => mode' = "SearchInput"
       /\ SearchInputEnter =>
            mode' = (IF Len(searchString) > 0 THEN "SearchActive" ELSE "Normal")
       /\ SearchInputCancel \/ SearchExit => mode' = "Normal"
       /\ SearchNext \/ SearchPrevious => mode' = "SearchActive"
       /\ (SearchInputBackspace \/ \E key \in TypedKeys : SearchInputType(key))
            => mode' = "SearchInput"
       /\ (\/ \E w \in TermWidths, h \in TermHeights : WindowSize(w, h)
           \/ MouseWheelUp \/ MouseWheelDown \/ MouseWheelRight \/ MouseWheelLeft)
            => mode' = mode]_vars

\* C15's case: Normal mode again after a search that was typed, confirmed with
\* matches and left
C15_NormalAfterSearch ==
    /\ Normal
    /\ Len(searchResults) > 0
    /\ searchString = ""

\* C16: from any reachable state in Normal mode, after expand-all (key a) every
\* node of the forest that has a child is expanded, so the visible flattening is
\* the whole forest.
C16_ExpandAllShowsForest ==
    [][KeyExpandAll =>
         /\ \A i \in 1..Len(subtree(heap', nodes')) :
                Len(heap'[subtree(heap', nodes')[i]].Children) > 0
                  => heap'[subtree(heap', nodes')[i]].Expanded
         /\ getVisibleNodes(heap', nodes') = subtree(heap', nodes')
         /\ allNodes' = subtree(heap', nodes')]_vars

\* C16's case: the whole forest visible, with the block under a root and its
\* children, in a window smaller than the forest
C16_WholeForestVisible ==
    /\ Normal
    /\ visibleNodes = subtree(heap, nodes)
    /\ Len(visibleNodes) > windowHeight
    /\ \E i \in 1..Len(visibleNodes) :
           heap[visibleNodes[i]].Depth >= 1 /\ Len(heap[visibleNodes[i]].Children) > 0

\* C17: after every cursor move or toggle windowTop lies in
\* [0, max(0, total_visible - windowHeight)], total_visible being the number of
\* visible nodes after the event.
C17_WindowTopInRange ==
    [][CursorEvent =>
         /\ 0 <= windowTop'
         /\ windowTop' <= Max(0, Len(getVisibleNodes(heap', nodes')) - windowHeight')]_vars

\* the lower bound alone
C17_WindowTopNotNegative ==
    [][CursorEvent => 0 <= windowTop']_vars

(***************************************************************************)
(* Properties of the build's failures, unknown values and reasons.         *)
(***************************************************************************)

\* C18: building the model completes without a runtime failure for every input
\* text, the empty text, a text of white space and plans with entries of unexpected
\* shape included: New never aborts.
C18_BuildNeverAborts ==
    pc # "crashed"

\* New aborts on no other text than one that is empty once trimmed
C18_OnlyBlankTextAborts ==
    pc = "crashed" => TrimSpace(planOutput.text) = ""

\* the keys that the after_unknown of the single change marks true
unknownKeys ==
    IF IsMap(Get(singleChange, "after_unknown"))
    THEN {k \in DOMAIN Get(singleChange, "after_unknown").v :
            Get(singleChange, "after_unknown").v[k] = Bool(TRUE)}
    ELSE {}

\* the texts of all the nodes of the forest
forestTexts == {heap[subtree(heap, nodes)[i]].Text : i \in 1..Len(subtree(heap, nodes))}

\* the text shows key with "(known after apply)" as its new value: after "->" when
\* the key is in before, as a "+" leaf when it is not
showsUnknown(text, key) ==
    IF IsMap(singleBefore) /\ key \in DOMAIN singleBefore.v
    THEN HasPrefix(text, "~ " \o key \o " ") /\ Contains(text, "-> (known after apply)")
    ELSE HasPrefix(text, "+ " \o key \o " ") /\ Contains(text, "(known after apply)")

\* C19: every attribute key that after_unknown marks true is shown with
\* "(known after apply)" as its new value, "<before> -> (known after apply)" when
\* the key is in before and a "+" leaf when it is not; no node shows another value
\* for the key and the key is not left out.
C19_UnknownKeysShown ==
    /\ pc \in {"running", "built"}
    /\ DecodablePlan
    /\ HasSingleChange
    /\ singleChangeType \in {"create", "update", "replace"}
    => \A key \in unknownKeys :
           /\ \E text \in forestTexts : showsUnknown(text, key)
           /\ \A text \in forestTexts :
                  namesKey(text, key) => Contains(text, "(known after apply)")

\* an entry that the change loop renders, with a reason
reasonedEntry(entry) ==
    /\ IsMap(entry)
    /\ IsStr(Get(entry.v, "address"))
    /\ IsMap(Get(entry.v, "change"))
    /\ entryActions(entry) # <<>>
    /\ entryActions(entry) # <<"no-op">>
    /\ IsStr(Get(entry.v, "action_reason"))
    /\ Get(entry.v, "action_reason").v # ""

\* some planned root is the header of entry and contains the phrase of its reason
reasonShown(entry) ==
    \E i \in 1..Len(nodes) :
        /\ heap[nodes[i]].Type = "resource"
        /\ ~heap[nodes[i]].IsDrifted
        /\ headerAddress(heap[nodes[i]].Text) = Get(entry.v, "address").v
        /\ Contains(heap[nodes[i]].Text,
                    getActionReasonDisplay(Get(entry.v, "action_reason").v))

\* C20: the root header of every planned resource whose entry has a non-empty
\* action_reason contains the phrase of the reason, the table's phrase for a reason
\* it knows and the reason itself for another, whether the resource is moved or not.
C20_ReasonInHeader ==
    pc = "running" /\ DecodablePlan =>
        \A e \in 1..Len(changeEntries) :
            reasonedEntry(changeEntries[e]) => reasonShown(changeEntries[e])

\* the same for the entries that are not moved
C20_ReasonInUnmovedHeader ==
    pc = "running" /\ DecodablePlan =>
        \A e \in 1..Len(changeEntries) :
            reasonedEntry(changeEntries[e]) /\ ~movedEntry(changeEntries[e])
              => reasonShown(changeEntries[e])

(***************************************************************************)
(* Properties of created and destroyed resources.                          *)
(***************************************************************************)

\* strings.HasSuffix
HasSuffix(s, suffix) ==
    Len(s) >= Len(suffix) /\ SubSeq(s, Len(s) - Len(suffix) + 1, Len(s)) = suffix

\* the planned roots classified create or destroy
oneSidedRoots ==
    SelectSeq(plannedRoots, LAMBDA n : heap[n].ChangeType \in {"create", "destroy"})

\* the prefix of the lines and the words of the header of such a root
sidePrefix(root) == IF heap[root].ChangeType = "create" THEN "+" ELSE "-"
sideWords(root) ==
    IF heap[root].ChangeType = "create" THEN " will be created" ELSE " will be destroyed"

\* the root has two children, a block with the prefix and a closing brace, and every
\* line under the block has the prefix or is a closing brace
oneSidedShape(root) ==
    /\ Len(heap[root].Children) = 2
    /\ heap[heap[root].Children[1]].Type = "block"
    /\ HasPrefix(heap[heap[root].Children[1]].Text, sidePrefix(root) \o " resource ")
    /\ heap[heap[root].Children[2]].Type = "closing_brace"
    /\ heap[heap[root].Children[2]].Text = "}"
    /\ \A i \in 1..Len(descendants(heap, heap[root].Children[1])) :
           LET text == heap[descendants(heap, heap[root].Children[1])[i]].Text
           IN  text = "}" \/ HasPrefix(text, sidePrefix(root) \o " ")

\* the line of a key whose value is null, a string, a number or a boolean
scalarLine(prefix, key, value) ==
    prefix \o " " \o key \o " = "
      \o (IF IsNil(value) THEN "null"
          ELSE IF IsStr(value) THEN "\"" \o value.v \o "\"" ELSE FormatV(value))

\* the lines directly under the block of root are those of side and of nothing else:
\* a line for each key of side with a scalar value, and no line for another key
oneSidedLines(root, side) ==
    LET lines == heap[heap[root].Children[1]].Children
        keys == IF IsMap(side) THEN DOMAIN side.v ELSE {}
    IN  /\ \A key \in keys :
               ~IsMap(side.v[key]) /\ ~IsList(side.v[key])
                 => \E i \in 1..Len(lines) :
                        heap[lines[i]].Text = scalarLine(sidePrefix(root), key, side.v[key])
        /\ \A i \in 1..Len(lines) :
               \/ heap[lines[i]].Text = "}"
               \/ \E key \in keys :
                      \/ HasPrefix(heap[lines[i]].Text, sidePrefix(root) \o " " \o key \o " ")
                      \/ HasPrefix(heap[lines[i]].Text, sidePrefix(root) \o " " \o key \o "[")
        /\ \A i \in 1..Len(lines) :
               \A key \in keys :
                   HasPrefix(heap[lines[i]].Text, sidePrefix(root) \o " " \o key \o " = ")
                     => heap[lines[i]].Text = scalarLine(sidePrefix(root), key, side.v[key])

\* the side a root of the single change shows
shownSide(root) == IF heap[root].ChangeType = "create" THEN singleAfter ELSE singleBefore

\* C21 as stated: a resource classified create has a root header ending "will be
\* created", two children, a "+" block and a closing brace, and "+" lines from after
\* only; one classified destroy the same with "will be destroyed", "-" and before.
C21_OneSideHeaderEnds ==
    pc = "running" /\ DecodablePlan =>
        \A r \in 1..Len(oneSidedRoots) :
            /\ HasSuffix(heap[oneSidedRoots[r]].Text, sideWords(oneSidedRoots[r]))
            /\ oneSidedShape(oneSidedRoots[r])
            /\ HasSingleChange
                 => oneSidedLines(oneSidedRoots[r], shownSide(oneSidedRoots[r]))

\* C21: the same, the header being "# <address> will be created" or "... destroyed"
\* followed by nothing, by " (moved from <previous_address>)" or by " (<reason>)".
C21_OneSideOnly ==
    pc = "running" /\ DecodablePlan =>
        \A r \in 1..Len(oneSidedRoots) :
            /\ \/ HasSuffix(heap[oneSidedRoots[r]].Text, sideWords(oneSidedRoots[r]))
               \/ /\ Contains(heap[oneSidedRoots[r]].Text, sideWords(oneSidedRoots[r]) \o " (")
                  /\ HasSuffix(heap[oneSidedRoots[r]].Text, ")")
                  /\ heap[oneSidedRoots[r]].PreviousAddress # ""
                       \/ heap[oneSidedRoots[r]].ActionReason # ""
            /\ heap[oneSidedRoots[r]].PreviousAddress = ""
                 /\ heap[oneSidedRoots[r]].ActionReason = ""
                 => HasSuffix(heap[oneSidedRoots[r]].Text, sideWords(oneSidedRoots[r]))
            /\ oneSidedShape(oneSidedRoots[r])
            /\ HasSingleChange
                 => oneSidedLines(oneSidedRoots[r], shownSide(oneSidedRoots[r]))

\* C21's case: a created or destroyed resource whose other side has a key with
\* another value, and a nested block under its block
C21_OneSideBuilt ==
    /\ pc = "running"
    /\ HasSingleChange
    /\ Len(oneSidedRoots) = 1
    /\ IsMap(singleBefore) /\ IsMap(singleAfter)
    /\ "k" \in DOMAIN singleBefore.v /\ "k" \in DOMAIN singleAfter.v
    /\ singleBefore.v["k"] # singleAfter.v["k"]
    /\ IsMap(shownSide(oneSidedRoots[1]).v["k"])
    /\ Len(descendants(heap, heap[oneSidedRoots[1]].Children[1])) > 3

(***************************************************************************)
(* Properties of the keys of the navigator.                                *)
(***************************************************************************)

\* the indices of the visible top-level resource nodes
rootIndices ==
    {i \in 0..(Len(visibleNodes) - 1) :
       heap[visibleNodes[i + 1]].Type = "resource" /\ heap[visibleNodes[i + 1]].Depth = 0}

\* the least and the greatest of a non-empty set of indices
least(S) == CHOOSE i \in S : \A j \in S : i <= j
greatest(S) == CHOOSE i \in S : \A j \in S : i >= j

\* where n and N are to put the cursor
rootAfterCursor ==
    IF {i \in rootIndices : i > cursor} # {} THEN least({i \in rootIndices : i > cursor})
    ELSE IF rootIndices # {} THEN least(rootIndices) ELSE cursor
rootBeforeCursor ==
    IF {i \in rootIndices : i < cursor} # {} THEN greatest({i \in rootIndices : i < cursor})
    ELSE IF rootIndices # {} THEN greatest(rootIndices) ELSE cursor

C23_UpDownByOne ==
    [][/\ (KeyUp \/ MouseWheelUp)
            => cursor' = (IF cursor > 0 THEN cursor - 1 ELSE cursor)
       /\ (KeyDown \/ MouseWheelDown)
            => cursor' = (IF cursor < Len(visibleNodes) - 1 THEN cursor + 1 ELSE cursor)]_vars

\* C23's case: the cursor on the last visible node of a forest longer than the
\* window, the window having followed it
C23_AtLastVisibleNode ==
    /\ Running
    /\ Len(visibleNodes) > windowHeight
    /\ cursor = Len(visibleNodes) - 1
    /\ windowTop > 0

\* a resize event
Resize == \E w \in TermWidths, h \in TermHeights : WindowSize(w, h)

\* what a resize to the height h and the width w sets and leaves
resizeSets(w, h) ==
    /\ windowHeight' = Max(MinWindowHeight, h - ReservedRows)
    /\ width' = w
    /\ cursor' = cursor
    /\ heap' = heap

\* the cursor, windowTop and windowHeight a resize to the height h leaves in the
\* present state, as case tea.WindowSizeMsg computes them
resizedWindow(h) ==
    LET newHeight == IF h - ReservedRows < MinWindowHeight
                     THEN MinWindowHeight ELSE h - ReservedRows
        maxTop == Max(0, Len(visibleNodes) - newHeight)
        top == IF windowTop > maxTop THEN maxTop ELSE windowTop
        r == ensureCursorVisible(cursor, top, newHeight, Len(visibleNodes))
    IN  IF windowHeight # newHeight
        THEN [cursor |-> r.cursor, windowTop |-> r.windowTop, windowHeight |-> newHeight]
        ELSE [cursor |-> cursor, windowTop |-> windowTop, windowHeight |-> newHeight]

\* a resize step leaves what resizedWindow says
resizeStep(w, h) ==
    /\ resizeSets(w, h)
    /\ cursor' = resizedWindow(h).cursor
    /\ windowTop' = resizedWindow(h).windowTop
    /\ windowHeight' = resizedWindow(h).windowHeight

\* C24: a resize sets windowHeight to max(5, height - 3) and width to the new
\* width, leaves the cursor and every node's expanded flag, and afterwards the
\* cursor is inside the window: in every state, for every resize that can arrive,
\* also one that changes nothing.
C24_ResizeKeepsCursorInWindow ==
    /\ [][\A w \in TermWidths, h \in TermHeights : WindowSize(w, h) => resizeStep(w, h)]_vars
    /\ [](Running =>
            \A h \in TermHeights :
                /\ resizedWindow(h).windowTop <= resizedWindow(h).cursor
                /\ resizedWindow(h).cursor
                     < resizedWindow(h).windowTop + resizedWindow(h).windowHeight)

\* the same, the cursor being inside the window after the resizes that change the
\* height
C24_ResizeSets ==
    /\ [][\A w \in TermWidths, h \in TermHeights : WindowSize(w, h) => resizeStep(w, h)]_vars
    /\ [](Running =>
            \A h \in TermHeights :
                resizedWindow(h).windowHeight # windowHeight =>
                    /\ resizedWindow(h).windowTop <= resizedWindow(h).cursor
                    /\ resizedWindow(h).cursor
                         < resizedWindow(h).windowTop + resizedWindow(h).windowHeight)

\* every variable but showHelp
exceptShowHelp ==
    <<inputVars, forestVars, searchVars, cursor, windowTop, windowHeight,
      horizontalOffset, width, quitting, ready>>

\* C25 as stated: in every mode "?" flips showHelp and changes nothing else. "?" is
\* KeyHelp in Normal mode and, as a key other than n and N, SearchExit among the
\* search results.
C25_HelpTogglesEveryMode ==
    [][(KeyHelp \/ SearchExit) => showHelp' = ~showHelp /\ UNCHANGED exceptShowHelp]_vars

\* what the handlers do: showHelp flips in Normal mode only, with nothing else
\* changed, so that a second "?" restores the state; no step from the search prompt
\* or from the search results changes showHelp, and "?" among the results leaves
\* the search instead
C25_HelpTogglesInNormal ==
    [][/\ showHelp' # showHelp =>
            /\ ~searchMode /\ ~inputSearchModel
            /\ UNCHANGED exceptShowHelp
       /\ SearchExit => showHelp' = showHelp /\ ~searchMode' /\ searchString' = ""]_vars

\* the help overlay opened in Normal mode and still open among the search results
C25_HelpOpenInSearch ==
    /\ SearchActive
    /\ showHelp
    /\ Len(searchResults) > 0

\* the nodes of the forest h under the roots ns that are not roots
nonRoots(h, ns) ==
    {subtree(h, ns)[i] : i \in 1..Len(subtree(h, ns))} \ {ns[i] : i \in 1..Len(ns)}

\* C26: collapse-all (key A) works on the whole forest: after it no node that is
\* not a root is expanded, the nodes hidden under a collapsed ancestor when the key
\* was pressed included.
C26_CollapseAllWholeForest ==
    [][KeyCollapseAll => \A n \in nonRoots(heap', nodes') : ~heap'[n].Expanded]_vars

\* collapse-all leaves no node expanded that is visible when the key is pressed and
\* has children
C26_CollapseAllVisible ==
    [][KeyCollapseAll =>
         \A i \in 1..Len(visibleNodes) :
             Len(heap[visibleNodes[i]].Children) > 0 => ~heap'[visibleNodes[i]].Expanded]_vars

(***************************************************************************)
(* Invariants of the cursor, of the search results and of the window.      *)
(***************************************************************************)

\* C27: in every reachable state of the navigator over a forest that is not empty
\* the cursor is an index of the visible flattening, 0 <= cursor < number of
\* visible nodes.
C27_CursorIsVisibleIndex ==
    pc = "running" /\ Len(nodes) > 0 => 0 <= cursor /\ cursor < Len(visibleNodes)

\* C27's case: the cursor on the last visible node after a collapse has hidden
\* expanded nodes and shortened the visible list
C27_CursorLastAfterCollapse ==
    /\ Normal
    /\ cursor > 0
    /\ cursor = Len(visibleNodes) - 1
    /\ \E n \in nonRoots(heap, nodes) :
           heap[n].Expanded /\ \A i \in 1..Len(visibleNodes) : visibleNodes[i] # n

\* C28: the cursor is recomputed after a structural change: after expand-all
\* (key a) it selects the node it selected before the key, also when nodes above
\* it have gained visible descendants.
C28_ExpandAllKeepsSelection ==
    [][KeyExpandAll /\ Len(visibleNodes) > 0 =>
         getVisibleNodes(heap', nodes')[cursor' + 1] = visibleNodes[cursor + 1]]_vars

\* expand-all leaves the index of the cursor
C28_ExpandAllKeepsIndex ==
    [][KeyExpandAll => cursor' = cursor]_vars

\* the indices of the visible nodes whose text contains the search string
matchingVisible ==
    {i \in 0..(Len(visibleNodes) - 1) : Contains(heap[visibleNodes[i + 1]].Text, searchString)}

\* C29: whenever the mode is SearchActive, searchResults is the strictly increasing
\* list of the indices of the visible nodes whose text contains the query: each
\* index is below the number of visible nodes and points at a node that contains
\* the query, whatever n, N, mouse and resize events have come.
C29_SearchResultsAreMatches ==
    SearchActive =>
        /\ \A i \in 1..(Len(searchResults) - 1) : searchResults[i] < searchResults[i + 1]
        /\ {searchResults[i] : i \in 1..Len(searchResults)} = matchingVisible

\* C29's case: among several matches, on the second one after n, in a window that
\* a resize has made smaller than the list
C29_SecondMatchSelected ==
    /\ SearchActive
    /\ Len(searchResults) > 1
    /\ searchIndex = 1
    /\ Len(visibleNodes) > windowHeight
    /\ Len(searchResults) < Len(visibleNodes)

\* the events whose handler runs ensureCursorVisible
EnsuringEvent ==
    \/ (KeyUp \/ MouseWheelUp) /\ cursor > 0
    \/ (KeyDown \/ MouseWheelDown) /\ cursor < Len(visibleNodes) - 1
    \/ KeySpace /\ heap' # heap
    \/ KeyEnter /\ cursor >= 0 /\ cursor < Len(visibleNodes)
    \/ KeyExpandAll
    \/ KeyCollapseAll /\ pc' = "running"
    \/ (KeyNextRoot \/ KeyPreviousRoot) /\ Len(visibleNodes) > 0
    \/ KeyHome
    \/ KeyEnd /\ Len(visibleNodes) > 0
    \/ SearchInputEnter /\ Len(searchString) > 0 /\ Len(searchResults') > 0
    \/ (SearchNext \/ SearchPrevious) /\ Len(searchResults) > 0
    \/ Resize /\ windowHeight' # windowHeight

\* C30: right after an event whose handler runs ensureCursorVisible, windowTop >= 0
\* and windowTop <= cursor < windowTop + max(1, windowHeight - 1): the line of the
\* cursor is one of the content lines.
C30_CursorOnContentLine ==
    [][EnsuringEvent =>
         /\ windowTop' >= 0
         /\ windowTop' <= cursor'
         /\ cursor' < windowTop' + Max(1, windowHeight' - 1)]_vars

\* C30's case: the cursor on the last content line of a window that has scrolled,
\* with nodes below it
C30_CursorOnLastContentLine ==
    /\ Running
    /\ windowTop > 0
    /\ cursor = windowTop + Max(1, windowHeight - 1) - 1
    /\ cursor < Len(visibleNodes) - 1

(***************************************************************************)
(* Properties of the toggling keys.                                        *)
(***************************************************************************)

\* the cursor is on a node without children or with toggleable = false
OnFixedNode ==
    /\ cursor >= 0 /\ cursor < Len(visibleNodes)
    /\ Len(heap[cursorNode].Children) = 0 \/ ~heap[cursorNode].Toggleable

\* the expanded flags of the forest are those of before
SameExpanded == \A n \in 1..Len(heap) : heap'[n].Expanded = heap[n].Expanded

\* C31: space, enter and backspace on a cursor node with no children or with
\* toggleable = false leave the expanded flag of every node of the forest.
C31_FixedNodesNotToggled ==
    [][(KeySpace \/ KeyEnter \/ KeyBackspace) /\ OnFixedNode
         => Len(heap') = Len(heap) /\ SameExpanded]_vars

\* C31's case: the cursor on a leaf under an expanded block, some other block of
\* the forest being collapsed
C31_OnLeafUnderBlock ==
    /\ Normal
    /\ OnFixedNode
    /\ heap[cursorNode].Parent # 0
    /\ heap[cursorNode].Type = "attribute"
    /\ \E n \in 1..Len(heap) : Len(heap[n].Children) > 0 /\ ~heap[n].Expanded

\* no node of the forest has children and toggleable = false
AllParentsToggleable ==
    \A n \in 1..Len(heap) : Len(heap[n].Children) > 0 => heap[n].Toggleable

\* the cursor is on a node of the visible list
CursorInList == cursor >= 0 /\ cursor < Len(visibleNodes)

\* backspace collapses the cursor node: it is expanded and has children
BackspaceCollapses ==
    CursorInList /\ heap[cursorNode].Expanded /\ Len(heap[cursorNode].Children) > 0

\* backspace on a collapsed or childless cursor node whose parent is visible
BackspaceJumps ==
    /\ CursorInList
    /\ ~(heap[cursorNode].Expanded /\ Len(heap[cursorNode].Children) > 0)
    /\ heap[cursorNode].Parent # 0
    /\ indexOf(visibleNodes, heap[cursorNode].Parent) >= 0

\* the cursor after the step, and the node it selects
SameSelection ==
    LET after == getVisibleNodes(heap', nodes')
    IN  /\ cursor' = cursor
        /\ cursor' < Len(after)
        /\ after[cursor' + 1] = cursorNode

\* the cursor after the step selects the parent of the node it selected
ParentSelected ==
    LET after == getVisibleNodes(heap', nodes')
    IN  /\ cursor' >= 0 /\ cursor' < Len(after)
        /\ after[cursor' + 1] = heap[cursorNode].Parent

\* C32: space, enter and a collapsing backspace keep the cursor index and the node
\* at that index; backspace on a collapsed or childless node with a visible parent
\* moves the cursor to exactly that parent and changes no expanded flag.
C32_ToggleKeepsSelection ==
    /\ [][(KeySpace \/ KeyEnter) /\ CursorInList => SameSelection]_vars
    /\ [][KeyBackspace /\ BackspaceCollapses => SameSelection]_vars
    /\ [][KeyBackspace /\ BackspaceJumps => ParentSelected /\ SameExpanded]_vars

\* C32's case: the cursor is on an expanded block under a root, below a collapsed
\* block, so that either backspace is possible in the forest
C32_OnExpandedInnerBlock ==
    /\ Normal
    /\ BackspaceCollapses
    /\ heap[cursorNode].Parent # 0
    /\ \E n \in 1..Len(heap) :
          /\ heap[n].Parent # 0 /\ Len(heap[n].Children) > 0 /\ ~heap[n].Expanded

(***************************************************************************)
(* Shape of the forest the builder returns.                                *)
(***************************************************************************)

\* the nodes of the forest: the roots and everything under them
forestNodes == subtree(heap, nodes)

\* the positions of root in the list of roots
isForestRoot(node) == \E i \in 1..Len(nodes) : nodes[i] = node

\* every child of n points back at n and lies one level deeper
childrenLinked(n) ==
    \A i \in 1..Len(heap[n].Children) :
        LET c == heap[n].Children[i]
        IN  heap[c].Parent = n /\ heap[c].Depth = heap[n].Depth + 1

\* C33: in every forest built from a decodable plan, every child c of every node n
\* has c.parent = n and c.depth = n.depth + 1, and every node without a parent is a
\* root of the returned forest.
C33_ParentAndDepth ==
    (pc = "running" /\ DecodablePlan) =>
        \A i \in 1..Len(forestNodes) :
            LET n == forestNodes[i]
            IN  /\ childrenLinked(n)
                /\ heap[n].Parent = 0 => isForestRoot(n)

\* the parent links alone
ParentLinks ==
    (pc = "running" /\ DecodablePlan) =>
        \A i \in 1..Len(forestNodes) :
            \A j \in 1..Len(heap[forestNodes[i]].Children) :
                heap[heap[forestNodes[i]].Children[j]].Parent = forestNodes[i]

\* the parentless nodes alone
ParentlessAreRoots ==
    (pc = "running" /\ DecodablePlan) =>
        \A i \in 1..Len(forestNodes) :
            heap[forestNodes[i]].Parent = 0 => isForestRoot(forestNodes[i])

\* C33's case: a built forest of several roots with a node three levels down
C33_DeepForestBuilt ==
    /\ pc = "running" /\ DecodablePlan
    /\ Len(nodes) >= 2
    /\ \E i \in 1..Len(forestNodes) :
          /\ heap[forestNodes[i]].Depth >= 3
          /\ heap[forestNodes[i]].Parent # 0
          /\ heap[heap[forestNodes[i]].Parent].Type = "block"

(***************************************************************************)
(* The comments that stand for what a diffed block does not show.          *)
(***************************************************************************)

\* the keys of the single change that the diff suppresses: present on both sides
\* with equal values; the mappings among them are blocks, the others attributes
suppressedKeys ==
    {k \in DOMAIN singleBefore.v \cap DOMAIN singleAfter.v :
        ~valuesDiffer(singleBefore.v[k], singleAfter.v[k])}
suppressedAttributes == {k \in suppressedKeys : ~IsMap(singleBefore.v[k])}
suppressedBlocks == {k \in suppressedKeys : IsMap(singleBefore.v[k])}

\* the comment leaves under the planned resource's block that count hidden things
\* of one kind ("attributes" or "blocks")
hiddenComments(kind) ==
    SelectSeq(plannedBlockChildren,
              LAMBDA n : /\ heap[n].Type = "comment"
                         /\ HasPrefix(heap[n].Text, "# (")
                         /\ HasSuffix(heap[n].Text, " unchanged " \o kind \o " hidden)"))

\* exactly one comment with the count n when n >= 1, none when n = 0
hiddenCommentFor(kind, n) ==
    IF n >= 1
    THEN /\ Len(hiddenComments(kind)) = 1
         /\ heap[hiddenComments(kind)[1]].Text
              = "# (" \o Itoa(n) \o " unchanged " \o kind \o " hidden)"
    ELSE Len(hiddenComments(kind)) = 0

\* C34: after diffing a block, exactly one comment "# (<n> unchanged attributes
\* hidden)" is appended if and only if n >= 1 attributes of the block were
\* suppressed, and exactly one "# (<n> unchanged blocks hidden)" if and only if
\* n >= 1 blocks were suppressed, n being the number actually suppressed.
C34_HiddenCommentsCount ==
    (pc = "running" /\ DiffedSingleChange) =>
        /\ hiddenCommentFor("attributes", Cardinality(suppressedAttributes))
        /\ hiddenCommentFor("blocks", Cardinality(suppressedBlocks))

\* what the builder does: one attributes comment when more keys than the threshold
\* are equal on both sides, blocks counted with the attributes, and no blocks comment
C34_HiddenCommentAboveThreshold ==
    (pc = "running" /\ DiffedSingleChange) =>
        /\ Len(hiddenComments("blocks")) = 0
        /\ IF Cardinality(suppressedKeys) > HiddenCommentThreshold
           THEN /\ Len(hiddenComments("attributes")) = 1
                /\ heap[hiddenComments("attributes")[1]].Text
                     = "# (" \o Itoa(Cardinality(suppressedKeys))
                             \o " unchanged attributes hidden)"
           ELSE Len(hiddenComments("attributes")) = 0

\* a diffed block with suppressed attributes and a hidden-attributes comment
C34_HiddenCommentBuilt ==
    /\ pc = "running" /\ DiffedSingleChange
    /\ Cardinality(suppressedAttributes) >= 1
    /\ Len(hiddenComments("attributes")) = 1

(***************************************************************************)
(* Lists diffed index by index.                                            *)
(***************************************************************************)

\* the keys of the single change that are lists on both sides and differ
listKeys ==
    {k \in DOMAIN singleBefore.v \cap DOMAIN singleAfter.v :
        /\ IsList(singleBefore.v[k]) /\ IsList(singleAfter.v[k])
        /\ valuesDiffer(singleBefore.v[k], singleAfter.v[k])}

\* the item of a list at index i (from 0), absent past the end
itemAt(list, i) == IF i < Len(list.v) THEN list.v[i + 1] ELSE Null

\* the indices at which the two lists of key k differ
differingIndices(k) ==
    {i \in 0..(Max(Len(singleBefore.v[k].v), Len(singleAfter.v[k].v)) - 1) :
        valuesDiffer(itemAt(singleBefore.v[k], i), itemAt(singleAfter.v[k], i))}

\* the "~ <k> {" blocks under the planned resource's block
listBlocks(k) ==
    SelectSeq(plannedBlockChildren, LAMBDA n : heap[n].Text = "~ " \o k \o " {")

\* the block has a child for index i
hasIndexNode(block, i) ==
    \E j \in 1..Len(heap[block].Children) :
        HasPrefix(heap[heap[block].Children[j]].Text, "~ [" \o Itoa(i) \o "]")

\* C35: for a key whose before and after are both lists, every index below the
\* longer length at which the two items differ (the shorter side absent past its
\* end) yields a node for that index under the list block, whether the items are
\* mappings or scalars and whether the list grew or shrank.
C35_ListDiffedByIndex ==
    (pc = "running" /\ DiffedSingleChange) =>
        \A k \in listKeys :
            /\ Len(listBlocks(k)) = 1
            /\ \A i \in differingIndices(k) : hasIndexNode(listBlocks(k)[1], i)

\* the same for the indices whose item before is not a mapping, or whose items
\* are mappings on both sides: the cases for which the loop writes a node
ListDiffedWhereWritten ==
    (pc = "running" /\ DiffedSingleChange) =>
        \A k \in listKeys :
            /\ Len(listBlocks(k)) = 1
            /\ \A i \in differingIndices(k) :
                  (IsMap(itemAt(singleBefore.v[k], i)) => IsMap(itemAt(singleAfter.v[k], i)))
                      => hasIndexNode(listBlocks(k)[1], i)

\* a mapping item before, no mapping after, and no node for the index
MappingItemDropped ==
    (pc = "running" /\ DiffedSingleChange) =>
        \A k \in listKeys : \A i \in differingIndices(k) :
            (IsMap(itemAt(singleBefore.v[k], i)) /\ ~IsMap(itemAt(singleAfter.v[k], i)))
                => ~hasIndexNode(listBlocks(k)[1], i)

(***************************************************************************)
(* Effective equality.                                                     *)
(***************************************************************************)

\* null, the empty string, the empty mapping and the empty list
EmptyValues == {Null, Str(""), Obj(EmptyMap), List(<<>>)}

\* the comparison has been called on three empty values
comparedEmpty == verdicts # <<>> /\ \A i \in 1..3 : operands[i] \in EmptyValues

\* C36: isEffectivelyEqual(a, b) is true for every pair a, b drawn from null, the
\* empty string, the empty mapping and the empty list, so that the relation is
\* reflexive, symmetric and transitive on them.
C36_EmptyValuesMutuallyEqual ==
    comparedEmpty =>
        /\ \A i, j \in 1..3 : verdicts[i][j]
        /\ \A i, j \in 1..3 : verdicts[i][j] => verdicts[j][i]
        /\ (verdicts[1][2] /\ verdicts[2][3]) => verdicts[1][3]

\* the relation is reflexive and symmetric on all the operands
EqualReflexiveSymmetric ==
    verdicts # <<>> =>
        /\ \A i \in 1..3 : verdicts[i][i]
        /\ \A i, j \in 1..3 : verdicts[i][j] = verdicts[j][i]

\* transitivity alone, on the empty values
EqualTransitiveOnEmpty ==
    comparedEmpty => ((verdicts[1][2] /\ verdicts[2][3]) => verdicts[1][3])

\* what the function does on the empty values: null equals each of them, and two
\* of them that are not null are equal exactly when they are of one kind
EmptyEqualThroughNull ==
    comparedEmpty =>
        \A i, j \in 1..3 :
            verdicts[i][j] = (IsNil(operands[i]) \/ IsNil(operands[j])
                                \/ operands[i].t = operands[j].t)

(***************************************************************************)
(* Walking the matches.                                                    *)
(***************************************************************************)

\* the matches are being walked and there is at least one
WalkingMatches == SearchActive /\ Len(searchResults) >= 1

\* the index after a step is this one and the cursor is on its match
onMatch(index) == searchIndex' = index /\ cursor' = searchResults[index + 1]

\* C37: with k >= 1 matches, n sets searchIndex to (searchIndex + 1) mod k and N
\* sets it to (searchIndex - 1) mod k, each moving the cursor to
\* searchResults[searchIndex]; 0 <= searchIndex < k always; so k presses of n come
\* back to the starting match and N undoes n.
C37_MatchesWalkedModulo ==
    /\ [][SearchNext /\ WalkingMatches
            => onMatch((searchIndex + 1) % Len(searchResults))]_vars
    /\ [][SearchPrevious /\ WalkingMatches
            => onMatch((searchIndex - 1 + Len(searchResults)) % Len(searchResults))]_vars
    /\ [](WalkingMatches => (0 <= searchIndex /\ searchIndex < Len(searchResults)))

\* C37's case: several matches, the last of them selected, so that n wraps
C37_OnLastOfSeveralMatches ==
    /\ WalkingMatches
    /\ Len(searchResults) >= 2
    /\ searchIndex = Len(searchResults) - 1
    /\ cursor = searchResults[searchIndex + 1]

(***************************************************************************)
(* Keys typed at the search prompt.                                        *)
(***************************************************************************)

\* a key whose name is not one character: an arrow key, tab, home, end, a function key
NamedKeys == {key \in TypedKeys : Len(key) # 1}

\* C38: while in SearchInput a key event that is not a single printable character
\* leaves the search string unchanged.
C38_NamedKeyNotTyped ==
    [][(\E key \in NamedKeys : SearchInputType(key)) => searchString' = searchString]_vars

\* what the prompt does with a key that is none of enter, esc, ctrl+c and
\* backspace: the name of the key is appended, whatever its length
KeyNameAppended ==
    [][\A key \in TypedKeys : SearchInputType(key) => searchString' = searchString \o key]_vars

\* the search string holds the name of a key: "up" was pressed at the prompt
KeyNameInSearchString == SearchInput /\ Contains(searchString, "up")

(***************************************************************************)
(* The session New returns.                                                *)
(***************************************************************************)

\* New has returned a session with at least one node
SessionStarted == pc = "running" /\ Len(nodes) > 0

\* C39: immediately after New every root-level node has expanded = true and every
\* node that is not a root has expanded = false, with cursor = 0, windowTop = 0 and
\* the mode Normal.
C39_StartsCollapsedExceptRoots ==
    SessionStarted =>
        /\ \A i \in 1..Len(nodes) : heap[nodes[i]].Expanded
        /\ \A n \in nonRoots(heap, nodes) : ~heap[n].Expanded
        /\ cursor = 0 /\ windowTop = 0
        /\ Normal

\* what New returns: a root is expanded exactly when it is a section or has IsRoot,
\* nothing under the roots is expanded, and the cursor, the window and the mode
\* are as stated
StartsCollapsedBelowRoots ==
    SessionStarted =>
        /\ \A i \in 1..Len(nodes) :
              heap[nodes[i]].Expanded
                  = (heap[nodes[i]].Type = "section" \/ heap[nodes[i]].IsRoot)
        /\ \A n \in nonRoots(heap, nodes) : ~heap[n].Expanded
        /\ cursor = 0 /\ windowTop = 0
        /\ Normal

\* no root of any forest is a section or has IsRoot: every root starts collapsed
NoRootStartsExpanded ==
    SessionStarted => \A i \in 1..Len(nodes) : ~heap[nodes[i]].Expanded

(***************************************************************************)
(* The error RunCommand returns.                                           *)
(***************************************************************************)

\* RunCommand returned the error of a command that ran and failed, output captured
FailedCaptured == cmdResult.returned /\ cmdResult.err = "exit status 1" /\ ~redirectOutput

\* C40: when the command exits with an error and redirectOutput is false, under
\* every interleaving of the copiers with cmd.Wait the returned error holds every
\* byte the command wrote to stdout and to stderr, and the spinner has been stopped
\* on every return path that started it.
C40_ErrorCarriesAllOutput ==
    /\ FailedCaptured =>
          /\ cmdResult.stdout = script.stdout
          /\ cmdResult.stderr = script.stderr
    /\ (cmdResult.returned /\ spinnerProgram.started) => spinnerProgram.stopped

\* the spinner alone: Stop has been called on every return path that started it
SpinnerStoppedOnReturn ==
    (cmdResult.returned /\ spinnerProgram.started) => spinnerProgram.stopped

\* the returned error holds nothing but a beginning of what the command wrote
ErrorCarriesBeginning ==
    FailedCaptured =>
        /\ HasPrefix(script.stdout, cmdResult.stdout)
        /\ HasPrefix(script.stderr, cmdResult.stderr)

\* when cmd.Wait returns with nothing left in the pipes and no copier holding bytes,
\* the buffers hold everything the command wrote
AllCapturedWhenPipesDrained ==
    [][(/\ CmdWait
        /\ \A s \in Streams : Len(cmdPipe[s].data) = 0 /\ copier[s].at \in {"read", "done"})
          => (captured.stdout = script.stdout /\ captured.stderr = script.stderr)]_vars

\* RunCommand returned the error of a failed command with all of its output
FailedWithAllOutput ==
    /\ FailedCaptured
    /\ cmdResult.stdout = "op" /\ cmdResult.stderr = "e"

====
